---- MODULE Spec2Model ----
(***************************************************************************)
(* Demand-forecasting pipeline of ml_model/: preprocessing of raw sales    *)
(* records into daily series, per-series training with persistence in the  *)
(* trained_models directory, next-day prediction, the listing and health   *)
(* check of the saved models, model evaluation and the daily monitoring.   *)
(*                                                                         *)
(* Strings that take part in file names (pincode, item, model type) are    *)
(* sequences of tokens, the token "_" being the separator character, so    *)
(* that the f-string that builds a file name is a concatenation.           *)
(* Dates are day numbers counted from 2024-01-01 (day 0, a Monday); every  *)
(* date of the model lies in January 2024.                                 *)
(***************************************************************************)
EXTENDS Integers, Sequences, FiniteSets, TLC

VARIABLES raw, processed, pc, files, run, result, dir_exists, reply

vars == <<raw, processed, pc, files, run, result, dir_exists, reply>>

-----------------------------------------------------------------------------
(* Bounds of the explored inputs *)

MaxRecs == 3
MaxDay == 3

(* Sample values *)

EmptyStr == <<>>
P1 == <<"110037">>
P2 == <<"400092">>
Milk == <<"Milk">>
Bread == <<"Bread">>
Key1 == <<P1, Milk>>
Key2 == <<P2, Bread>>
Keys == {Key1, Key2}
Quantities == {1, 2}

None == "None"

-----------------------------------------------------------------------------
(* Sequence helpers *)

RECURSIVE SumSeq(_)
SumSeq(s) == IF s = <<>> THEN 0 ELSE Head(s) + SumSeq(Tail(s))

RECURSIVE Concat(_)
Concat(ss) == IF ss = <<>> THEN <<>> ELSE Head(ss) \o Concat(Tail(ss))

SeqMin(s) == CHOOSE x \in {s[i] : i \in DOMAIN s} : \A j \in DOMAIN s : x <= s[j]
SeqMax(s) == CHOOSE x \in {s[i] : i \in DOMAIN s} : \A j \in DOMAIN s : x >= s[j]

-----------------------------------------------------------------------------
(* feature_engineering.py *)

KeyOf(r) == <<r.pincode, r.item>>

(* df[['pincode', 'item']].drop_duplicates(): the distinct keys, in the
   order of their first row *)
RECURSIVE DropDuplicates(_)
DropDuplicates(ks) ==
    IF ks = <<>> THEN <<>>
    ELSE LET init == DropDuplicates(SubSeq(ks, 1, Len(ks) - 1))
             last == ks[Len(ks)]
         IN  IF \E i \in DOMAIN init : init[i] = last THEN init
             ELSE Append(init, last)

UniqueCombinations(df) == DropDuplicates([i \in DOMAIN df |-> KeyOf(df[i])])

(* df[(df['pincode'] == pincode) & (df['item'] == item)] *)
FilterKey(df, pincode, item) ==
    SelectSeq(df, LAMBDA r : r.pincode = pincode /\ r.item = item)

(* The calendar features of one day (Monday = 0) *)
DayOfWeek(ds) == ds % 7
IsWeekend(ds) == IF DayOfWeek(ds) >= 5 THEN 1 ELSE 0

(* Mutant: sums are replaced by a count of the day's records *)
DaySumAsCount(group, d) == Len(SelectSeq(group, LAMBDA r : r.date = d))

(* .resample('D').sum() for one day bin: the sum of the bin's quantities,
   0 for an empty bin *)
DaySum(group, d) ==
    LET bin == SelectSeq(group, LAMBDA r : r.date = d)
    IN  SumSeq([i \in DOMAIN bin |-> bin[i].sales_quantity])

(* Mutant: only the days that have a record get a row (no gap filling) *)
ResampleDaysObserved(group) ==
    LET dates == [i \in DOMAIN group |-> group[i].date]
        lo == SeqMin(dates)
        hi == SeqMax(dates)
        all == [i \in 1..(hi - lo + 1) |-> lo + i - 1]
    IN  SelectSeq(all, LAMBDA d : \E i \in DOMAIN group : group[i].date = d)

(* The bins of .resample('D'): every day from the first to the last date of
   the group, in order *)
ResampleDays(group) ==
    LET dates == [i \in DOMAIN group |-> group[i].date]
        lo == SeqMin(dates)
        hi == SeqMax(dates)
    IN  [i \in 1..(hi - lo + 1) |-> lo + i - 1]

(* Mutant: the bins of a series run from the first to the last date of the
   whole frame, not of the group *)
DailySalesOverFrameDates(df, pincode, item) ==
    LET group == FilterKey(df, pincode, item)
        days == ResampleDays(df)
    IN  [i \in DOMAIN days |->
            [ds |-> days[i], y |-> DaySum(group, days[i]),
             pincode |-> pincode, item |-> item,
             day_of_week |-> DayOfWeek(days[i]),
             day_of_year |-> days[i] + 1,
             month |-> 1, quarter |-> 1,
             is_weekend |-> IsWeekend(days[i])]]

(* One iteration of the loop over unique_combinations: the daily series of
   one (pincode, item) with its identification and calendar features *)
DailySales(df, pincode, item) ==
    LET group == FilterKey(df, pincode, item)
        days == ResampleDays(group)
    IN  [i \in DOMAIN days |->
            [ds |-> days[i], y |-> DaySum(group, days[i]),
             pincode |-> pincode, item |-> item,
             day_of_week |-> DayOfWeek(days[i]),
             day_of_year |-> days[i] + 1,
             month |-> 1, quarter |-> 1,
             is_weekend |-> IsWeekend(days[i])]]

(* Mutant: an empty input gives a frame with one placeholder row *)
preprocess_data_placeholder_row(df) ==
    IF df = <<>>
    THEN <<[ds |-> 0, y |-> 0, pincode |-> EmptyStr, item |-> EmptyStr,
            day_of_week |-> DayOfWeek(0), day_of_year |-> 1, month |-> 1,
            quarter |-> 1, is_weekend |-> IsWeekend(0)]>>
    ELSE LET uc == UniqueCombinations(df)
         IN  Concat([i \in DOMAIN uc |-> DailySales(df, uc[i][1], uc[i][2])])

(* preprocess_data: the series of the combinations in the order of their
   first records, one below the other *)
preprocess_data(df) ==
    IF df = <<>> THEN <<>>
    ELSE LET uc == UniqueCombinations(df)
         IN  Concat([i \in DOMAIN uc |-> DailySales(df, uc[i][1], uc[i][2])])

-----------------------------------------------------------------------------
(* The trained_models directory and the environment of a call *)

Prophet == "prophet"
Arima == "arima"
Xgb == "xgb"
ModelTypes == {Prophet, Arima, Xgb}

(* Blobs and model values share one shape: NoModel is Python's None, Corrupt
   a file that joblib.load cannot deserialize *)
NoModel == [model_type |-> None, pincode |-> <<>>, item |-> <<>>, n |-> 0]
Corrupt == [model_type |-> "corrupt", pincode |-> <<>>, item |-> <<>>, n |-> 0]

EmptyDir == [f \in {} |-> NoModel]

(* f'{model_type}_model_{pincode}_{item}.joblib' inside MODEL_SAVE_DIR *)
ModelFilename(model_type, pincode, item) ==
    <<model_type, "_", "model", "_">> \o pincode \o <<"_">> \o item
        \o <<".joblib">>

Exists(fs, fn) == fn \in DOMAIN fs

(* The directory after fn has been (re)written with blob *)
WriteFile(fs, fn, blob) ==
    [f \in DOMAIN fs \cup {fn} |-> IF f = fn THEN blob ELSE fs[f]]

(* A fitted model: the kind and key it was fitted for and the number of
   rows it was fitted on *)
Fitted(model_type, pincode, item, n) ==
    [model_type |-> model_type, pincode |-> pincode, item |-> item, n |-> n]

(* What the libraries can do during one training call: the fit succeeds or
   raises; joblib.dump succeeds, raises before it opens the file, or raises
   after it has truncated and partly written the file *)
TrainOutcomes == {"ok", "fit_raises", "dump_raises_clean", "dump_raises_partial"}

(* joblib.dump(model, model_filename) under outcome env *)
Dump(fs, fn, model, env) ==
    IF env = "dump_raises_partial" THEN WriteFile(fs, fn, Corrupt)
    ELSE IF env = "dump_raises_clean" THEN fs
    ELSE WriteFile(fs, fn, model)

-----------------------------------------------------------------------------
(* model_training_prophet_only.py and model_training.py *)

MIN_PROPHET_POINTS == 10
MIN_ARIMA_POINTS == 10

(* model.fit(prophet_df): Prophet refuses a frame of fewer than 2 rows, and
   may fail on any other frame *)
ProphetFitRaises(df, env) == Len(df) < 2 \/ env = "fit_raises"

(* pm.auto_arima(series, ...) *)
ArimaFitRaises(series, env) == env = "fit_raises"

Trained(model, fs) == [model |-> model, files |-> fs]

(* Mutant: the training side writes the item before the pincode *)
ProphetModelFilenameItemFirst(pincode, item) ==
    <<"prophet", "_", "model", "_">> \o item \o <<"_">> \o pincode \o <<".joblib">>

(* f'prophet_model_{pincode}_{item}.joblib', the name the training side
   writes; the loading side builds its own (ModelFilename) *)
ProphetModelFilename(pincode, item) ==
    <<"prophet", "_", "model", "_">> \o pincode \o <<"_">> \o item \o <<".joblib">>

(* f'arima_model_{pincode}_{item}.joblib' *)
ArimaModelFilename(pincode, item) ==
    <<"arima", "_", "model", "_">> \o pincode \o <<"_">> \o item \o <<".joblib">>

(* The name under which the training side saves a model of a kind *)
TrainFilename(model_type, pincode, item) ==
    IF model_type = Arima THEN ArimaModelFilename(pincode, item)
    ELSE ProphetModelFilename(pincode, item)

(* Mutant: the file is opened for writing before the rows are counted and
   the model is fitted, so a call that gives up has already emptied it *)
train_prophet_model_prophet_only_open_first(data, pincode, item, fs, env) ==
    LET filtered_data == FilterKey(data, pincode, item)
        model == Fitted(Prophet, pincode, item, Len(filtered_data))
        model_filename == ProphetModelFilename(pincode, item)
        opened == WriteFile(fs, model_filename, Corrupt)
    IN  IF filtered_data = <<>> THEN Trained(NoModel, fs)
        ELSE IF Len(filtered_data) < MIN_PROPHET_POINTS THEN Trained(NoModel, opened)
        ELSE IF ProphetFitRaises(filtered_data, env) THEN Trained(NoModel, opened)
        ELSE IF env # "ok" THEN Trained(NoModel, Dump(fs, model_filename, model, env))
        ELSE Trained(model, Dump(fs, model_filename, model, env))

(* model_training_prophet_only.train_prophet_model: the whole body is inside
   one try, every exception gives None *)
train_prophet_model_prophet_only(data, pincode, item, fs, env) ==
    LET filtered_data == FilterKey(data, pincode, item)
        model == Fitted(Prophet, pincode, item, Len(filtered_data))
        model_filename == ProphetModelFilename(pincode, item)
    IN  IF filtered_data = <<>> THEN Trained(NoModel, fs)
        ELSE IF Len(filtered_data) < MIN_PROPHET_POINTS THEN Trained(NoModel, fs)
        ELSE IF ProphetFitRaises(filtered_data, env) THEN Trained(NoModel, fs)
        ELSE IF env # "ok" THEN Trained(NoModel, Dump(fs, model_filename, model, env))
        ELSE Trained(model, Dump(fs, model_filename, model, env))

(* model_training.train_prophet_model: no check of the number of rows; fit
   and dump are inside the try *)
train_prophet_model(data, pincode, item, fs, env) ==
    LET filtered_data == FilterKey(data, pincode, item)
        model == Fitted(Prophet, pincode, item, Len(filtered_data))
        model_filename == ProphetModelFilename(pincode, item)
    IN  IF filtered_data = <<>> THEN Trained(NoModel, fs)
        ELSE IF ProphetFitRaises(filtered_data, env) THEN Trained(NoModel, fs)
        ELSE IF env # "ok" THEN Trained(NoModel, Dump(fs, model_filename, model, env))
        ELSE Trained(model, Dump(fs, model_filename, model, env))

(* model_training.train_arima_model; the rows of one key are already in date
   order, so sort_values('ds') leaves the series as it is *)
train_arima_model(data, pincode, item, fs, env) ==
    LET filtered_data == FilterKey(data, pincode, item)
        series == [i \in DOMAIN filtered_data |-> filtered_data[i].y]
        model == Fitted(Arima, pincode, item, Len(series))
        model_filename == ArimaModelFilename(pincode, item)
    IN  IF filtered_data = <<>> THEN Trained(NoModel, fs)
        ELSE IF Len(series) < MIN_ARIMA_POINTS THEN Trained(NoModel, fs)
        ELSE IF ArimaFitRaises(series, env) THEN Trained(NoModel, fs)
        ELSE IF env # "ok" THEN Trained(NoModel, Dump(fs, model_filename, model, env))
        ELSE Trained(model, Dump(fs, model_filename, model, env))

-----------------------------------------------------------------------------
(* prediction.py, prediction_prophet_only.py and api_integration.py *)

restock_buffer == 5

(* Forecast values are counted in halves (yhat2 = 2 * yhat), so that the
   rounding has ties to decide *)
Yhat2s == {-13, 1, 3, 5}

(* What model.predict can do: raise, return NaN, or return a number *)
ForecastOutcomes ==
    {[raises |-> TRUE, nan |-> FALSE, yhat2 |-> 0],
     [raises |-> FALSE, nan |-> TRUE, yhat2 |-> 0]}
        \cup {[raises |-> FALSE, nan |-> FALSE, yhat2 |-> h] : h \in Yhat2s}

(* Python's round() of h / 2: to the nearest integer, ties to the even one *)
Round(h) ==
    LET f == h \div 2
    IN  IF h % 2 = 0 THEN f ELSE IF f % 2 = 0 THEN f ELSE f + 1

Max(a, b) == IF a >= b THEN a ELSE b

(* What a load function hands back: the model or None, the registry accesses
   it made (os.path.exists, joblib.load), and whether an exception left it *)
Loaded(model, accesses) == [model |-> model, accesses |-> accesses, raised |-> FALSE]

(* Mutant: joblib.load is called outside any try *)
load_model_unguarded(pincode, item, model_type, fs) ==
    LET model_filename == ModelFilename(model_type, pincode, item)
    IN  IF ~Exists(fs, model_filename) THEN Loaded(NoModel, <<"exists">>)
        ELSE IF fs[model_filename] = Corrupt
        THEN [Loaded(NoModel, <<"exists", "load">>) EXCEPT !.raised = TRUE]
        ELSE Loaded(fs[model_filename], <<"exists", "load">>)

(* prediction.load_model: None for a missing file and for a file that fails
   to load *)
load_model(pincode, item, model_type, fs) ==
    LET model_filename == ModelFilename(model_type, pincode, item)
    IN  IF ~Exists(fs, model_filename) THEN Loaded(NoModel, <<"exists">>)
        ELSE IF fs[model_filename] = Corrupt THEN Loaded(NoModel, <<"exists", "load">>)
        ELSE Loaded(fs[model_filename], <<"exists", "load">>)

(* prediction_prophet_only.load_prophet_model *)
load_prophet_model(pincode, item, fs) ==
    LET model_filename == ModelFilename(Prophet, pincode, item)
    IN  IF ~Exists(fs, model_filename) THEN Loaded(NoModel, <<"exists">>)
        ELSE IF fs[model_filename] = Corrupt THEN Loaded(NoModel, <<"exists", "load">>)
        ELSE Loaded(fs[model_filename], <<"exists", "load">>)

FileState(fs, fn) ==
    IF ~Exists(fs, fn) THEN "absent" ELSE IF fs[fn] = Corrupt THEN "corrupt" ELSE "ok"

(* The dictionary a predict function returns (pincode, item, predicted_demand,
   restock_quantity, status), with a record of the call: the request, the
   registry accesses made, whether model.predict was called and raised,
   whether an exception left the function, the state of the requested file
   when it was called, and the HTTP status when the call came through the
   endpoint (0 otherwise) *)
Result(op, pincode, item, model_type, demand, restock, status, accesses, fs) ==
    [op |-> op, pincode |-> pincode, item |-> item,
     predicted_demand |-> demand, restock_quantity |-> restock,
     status |-> status,
     request |-> <<pincode, item, model_type>>,
     accesses |-> accesses, forecast_raised |-> FALSE, raised |-> FALSE,
     file_state |-> FileState(fs, ModelFilename(model_type, pincode, item)),
     http |-> 0]

(* An exception that leaves the function: there is no dictionary *)
Raised(op, pincode, item, model_type, accesses, fs) ==
    [Result(op, EmptyStr, EmptyStr, model_type, 0, 0, None, accesses, fs)
        EXCEPT !.request = <<pincode, item, model_type>>, !.raised = TRUE,
               !.file_state = FileState(fs, ModelFilename(model_type, pincode, item))]

(* Mutant: the result of round() is used without the clamp *)
PredictedDemandUnclamped(env) == Round(env.yhat2)

(* max(0, round(yhat)) *)
PredictedDemand(env) == Max(0, Round(env.yhat2))

(* max(0, predicted_demand + restock_buffer) *)
RestockQuantity(predicted_demand) == Max(0, predicted_demand + restock_buffer)

(* Mutant: model.predict is called outside the try *)
predict_next_day_demand_uncaught(pincode, item, model_type, fs, env) ==
    LET ld == load_model(pincode, item, model_type, fs)
        op == "predict_next_day_demand"
        R(d, q, st) == Result(op, pincode, item, model_type, d, q, st, ld.accesses, fs)
    IN  IF ld.raised THEN Raised(op, pincode, item, model_type, ld.accesses, fs)
        ELSE IF ld.model = NoModel THEN R(0, 0, "ModelNotFound")
        ELSE IF model_type \in {Prophet, Arima}
        THEN IF env.raises \/ env.nan
             THEN [Raised(op, pincode, item, model_type, ld.accesses, fs)
                      EXCEPT !.forecast_raised = TRUE]
             ELSE R(PredictedDemand(env), RestockQuantity(PredictedDemand(env)),
                    "Success")
        ELSE R(0, 0, "Unsupported")

(* Mutant: the test of the loaded model against None is missing, the call of
   predict on None raises inside the try *)
predict_next_day_demand_no_none_check(pincode, item, model_type, fs, env) ==
    LET ld == load_model(pincode, item, model_type, fs)
        op == "predict_next_day_demand"
        R(d, q, st) == Result(op, pincode, item, model_type, d, q, st, ld.accesses, fs)
    IN  IF ld.raised THEN Raised(op, pincode, item, model_type, ld.accesses, fs)
        ELSE IF model_type \in {Prophet, Arima}
        THEN IF ld.model = NoModel \/ env.raises \/ env.nan
             THEN [R(0, 0, "PredictionFailed") EXCEPT !.forecast_raised = TRUE]
             ELSE R(PredictedDemand(env), RestockQuantity(PredictedDemand(env)),
                    "Success")
        ELSE R(0, 0, "Unsupported")

(* prediction.predict_next_day_demand: load_model is called before the try;
   inside it, round() of NaN raises like model.predict *)
predict_next_day_demand(pincode, item, model_type, fs, env) ==
    LET ld == load_model(pincode, item, model_type, fs)
        op == "predict_next_day_demand"
        R(d, q, st) == Result(op, pincode, item, model_type, d, q, st, ld.accesses, fs)
    IN  IF ld.raised THEN Raised(op, pincode, item, model_type, ld.accesses, fs)
        ELSE IF ld.model = NoModel THEN R(0, 0, "ModelNotFound")
        ELSE IF model_type \in {Prophet, Arima}
        THEN IF env.raises \/ env.nan
             THEN [R(0, 0, "PredictionFailed") EXCEPT !.forecast_raised = TRUE]
             ELSE R(PredictedDemand(env), RestockQuantity(PredictedDemand(env)),
                    "Success")
        ELSE R(0, 0, "Unsupported")

(* prediction_prophet_only.predict_next_day_demand_prophet *)
predict_next_day_demand_prophet(pincode, item, fs, env) ==
    LET ld == load_prophet_model(pincode, item, fs)
        op == "predict_next_day_demand_prophet"
        R(d, q, st, acc) == Result(op, pincode, item, Prophet, d, q, st, acc, fs)
    IN  IF pincode = EmptyStr \/ item = EmptyStr THEN R(0, 0, "InvalidInput", <<>>)
        ELSE IF ld.raised THEN Raised(op, pincode, item, Prophet, ld.accesses, fs)
        ELSE IF ld.model = NoModel THEN R(0, 0, "ModelNotFound", ld.accesses)
        ELSE IF env.raises \/ env.nan
        THEN [R(0, 0, "PredictionFailed", ld.accesses) EXCEPT !.forecast_raised = TRUE]
        ELSE R(PredictedDemand(env), RestockQuantity(PredictedDemand(env)),
               "Success", ld.accesses)

(* api_integration.get_predicted_demand: the HTTP status with the body or
   the error detail; an exception of the call other than HTTPException
   becomes a 500 *)
get_predicted_demand(pincode, item, model_type, fs, env) ==
    LET rejected(st) == [Result("get_predicted_demand", pincode, item, model_type,
                                0, 0, st, <<>>, fs) EXCEPT !.http = 400]
        r == predict_next_day_demand(pincode, item, model_type, fs, env)
    IN  IF pincode = EmptyStr \/ item = EmptyStr THEN rejected("InvalidInput")
        ELSE IF model_type \notin {Prophet, Arima} THEN rejected("Unsupported")
        ELSE IF r.raised
        THEN [r EXCEPT !.op = "get_predicted_demand", !.raised = FALSE, !.http = 500]
        ELSE IF r.status # "Success"
        THEN [r EXCEPT !.op = "get_predicted_demand", !.http = 404]
        ELSE [r EXCEPT !.op = "get_predicted_demand", !.http = 200]

-----------------------------------------------------------------------------
(* State *)

(* The state of a training run: which entry point runs, the combinations it
   iterates, the index of the next one, which model the next call trains, the
   counters of the entry point, its return value, and the calls made so far *)
NoRun == [kind |-> None, combos |-> <<>>, idx |-> 0, step |-> None,
          trained |-> 0, failed |-> 0, trained_arima |-> 0, ret |-> None,
          attempts |-> <<>>]

NoResult == Result(None, EmptyStr, EmptyStr, None, 0, 0, None, <<>>, EmptyDir)

(* dir_exists: whether the trained_models directory exists (the training
   modules create it when they are imported). reply: the value of the call
   of a listing, health, evaluation or monitoring operation that has just
   returned *)
NoReply == [op |-> None, value |-> [status |-> None]]

SalesRecord == [date : 0..MaxDay, pincode : {P1, P2}, item : {Milk, Bread},
                sales_quantity : Quantities]

KeyedRecord(r) == KeyOf(r) \in Keys

RECURSIVE SeqsUpTo(_, _)
SeqsUpTo(S, n) ==
    IF n = 0 THEN {<<>>}
    ELSE LET shorter == SeqsUpTo(S, n - 1)
         IN  shorter \cup {Append(s, x) : s \in {t \in shorter : Len(t) = n - 1},
                                         x \in S}

SmallRawInputs == SeqsUpTo({r \in SalesRecord : KeyedRecord(r)}, MaxRecs)

(* get_historical_sales_data followed by preprocess_data, as every pipeline
   entry point calls them *)
Preprocess ==
    /\ pc = "raw"
    /\ processed' = preprocess_data(raw)
    /\ pc' = "preprocessed"
    /\ UNCHANGED <<raw, files, run, result, dir_exists, reply>>

InitPre ==
    /\ raw \in SmallRawInputs
    /\ processed = <<>>
    /\ pc = "raw"
    /\ files = EmptyDir
    /\ run = NoRun
    /\ result = NoResult
    /\ dir_exists = TRUE
    /\ reply = NoReply

NextPre == Preprocess

SpecPre == InitPre /\ [][NextPre]_vars

-----------------------------------------------------------------------------
(* The pipeline: training runs and prediction calls *)

Sale(k, d) == [date |-> d, pincode |-> k[1], item |-> k[2], sales_quantity |-> 1]

(* The records of one key that span n days (none for n = 0) *)
Span(k, n) ==
    IF n = 0 THEN <<>> ELSE IF n = 1 THEN <<Sale(k, 0)>>
    ELSE <<Sale(k, 0), Sale(k, n - 1)>>

TrainingSpans == {1, 3, 9, 10}

PipelineRawInputs ==
    {<<>>} \cup {Span(Key1, a) \o Span(Key2, b) :
                    a \in TrainingSpans, b \in {0, 3, 10}}

(* What the directory may hold before the first run: nothing, or a file
   another tool saved under a kind name the pipeline does not know *)
ForeignModel == Fitted(Xgb, P1, Milk, 0)

InitialDirs == {EmptyDir, WriteFile(EmptyDir, ModelFilename(Xgb, P1, Milk), ForeignModel)}

Attempt(model_type, k) == <<model_type, k[1], k[2]>>

(* test_prophet_training up to the loop: an empty frame ends the run *)
StartProphetOnlyRun ==
    /\ pc = "preprocessed"
    /\ IF processed = <<>>
       THEN /\ pc' = "done"
            /\ run' = [NoRun EXCEPT !.kind = "prophet_only", !.ret = "False"]
       ELSE /\ pc' = "training"
            /\ run' = [NoRun EXCEPT !.kind = "prophet_only",
                                    !.combos = UniqueCombinations(processed),
                                    !.idx = 1, !.step = Prophet]
    /\ UNCHANGED <<raw, processed, files, result, dir_exists, reply>>

(* The __main__ block of model_training.py up to the loop *)
StartFullRun ==
    /\ pc = "preprocessed"
    /\ IF processed = <<>>
       THEN /\ pc' = "done"
            /\ run' = [NoRun EXCEPT !.kind = "full"]
       ELSE /\ pc' = "training"
            /\ run' = [NoRun EXCEPT !.kind = "full",
                                    !.combos = UniqueCombinations(processed),
                                    !.idx = 1, !.step = Prophet]
    /\ UNCHANGED <<raw, processed, files, result, dir_exists, reply>>

(* Mutant: the first failed key ends the loop *)
ProphetOnlyAfterAbortOnFailure(r) ==
    LET k == run.combos[run.idx]
        ok == r.model # NoModel
        last == run.idx = Len(run.combos) \/ ~ok
        trained == IF ok THEN run.trained + 1 ELSE run.trained
    IN  [run EXCEPT !.idx = IF last THEN Len(run.combos) + 1 ELSE @ + 1,
                    !.trained = trained,
                    !.failed = IF ok THEN @ ELSE @ + 1,
                    !.ret = IF ~last THEN @ ELSE IF trained > 0 THEN "True" ELSE "False",
                    !.attempts = Append(@, Attempt(Prophet, k))]

(* One iteration of the loop of test_prophet_training given what
   train_prophet_model returned, with the summary after the last one *)
ProphetOnlyAfter(r) ==
    LET k == run.combos[run.idx]
        ok == r.model # NoModel
        last == run.idx = Len(run.combos)
        trained == IF ok THEN run.trained + 1 ELSE run.trained
    IN  [run EXCEPT !.idx = @ + 1,
                    !.trained = trained,
                    !.failed = IF ok THEN @ ELSE @ + 1,
                    !.ret = IF ~last THEN @ ELSE IF trained > 0 THEN "True" ELSE "False",
                    !.attempts = Append(@, Attempt(Prophet, k))]

TrainProphetOnlyStep ==
    /\ pc = "training"
    /\ run.kind = "prophet_only"
    /\ \E env \in TrainOutcomes :
          LET k == run.combos[run.idx]
              r == train_prophet_model_prophet_only(processed, k[1], k[2], files, env)
          IN  /\ files' = r.files
              /\ run' = ProphetOnlyAfter(r)
    /\ pc' = IF run'.idx > Len(run.combos) THEN "done" ELSE "training"
    /\ UNCHANGED <<raw, processed, result, dir_exists, reply>>

(* The first half of one iteration of the loop of model_training.py *)
TrainProphetFullStep ==
    /\ pc = "training"
    /\ run.kind = "full"
    /\ run.step = Prophet
    /\ \E env \in TrainOutcomes :
          LET k == run.combos[run.idx]
              r == train_prophet_model(processed, k[1], k[2], files, env)
          IN  /\ files' = r.files
              /\ run' = [run EXCEPT !.step = Arima,
                                    !.trained = IF r.model # NoModel THEN @ + 1 ELSE @,
                                    !.attempts = Append(@, Attempt(Prophet, k))]
    /\ UNCHANGED <<raw, processed, pc, result, dir_exists, reply>>

(* The second half of the iteration *)
TrainArimaFullStep ==
    /\ pc = "training"
    /\ run.kind = "full"
    /\ run.step = Arima
    /\ \E env \in TrainOutcomes :
          LET k == run.combos[run.idx]
              r == train_arima_model(processed, k[1], k[2], files, env)
          IN  /\ files' = r.files
              /\ run' = [run EXCEPT !.step = Prophet, !.idx = @ + 1,
                                    !.trained_arima = IF r.model # NoModel THEN @ + 1 ELSE @,
                                    !.attempts = Append(@, Attempt(Arima, k))]
    /\ pc' = IF run'.idx > Len(run.combos) THEN "done" ELSE "training"
    /\ UNCHANGED <<raw, processed, result, dir_exists, reply>>

(* Requests. Calls are synchronous: result holds the value of the call that
   has just returned until its caller has taken it (Return) *)
RequestPincodes == {EmptyStr, P1}
RequestItems == {EmptyStr, Milk}

Predict ==
    /\ result = NoResult
    /\ \E pincode \in RequestPincodes, item \in RequestItems,
          model_type \in ModelTypes, env \in ForecastOutcomes :
          result' = predict_next_day_demand(pincode, item, model_type, files, env)
    /\ UNCHANGED <<raw, processed, pc, files, run, dir_exists, reply>>

PredictProphet ==
    /\ result = NoResult
    /\ \E pincode \in RequestPincodes, item \in RequestItems, env \in ForecastOutcomes :
          result' = predict_next_day_demand_prophet(pincode, item, files, env)
    /\ UNCHANGED <<raw, processed, pc, files, run, dir_exists, reply>>

PredictEndpoint ==
    /\ result = NoResult
    /\ \E pincode \in RequestPincodes, item \in RequestItems,
          model_type \in ModelTypes, env \in ForecastOutcomes :
          result' = get_predicted_demand(pincode, item, model_type, files, env)
    /\ UNCHANGED <<raw, processed, pc, files, run, dir_exists, reply>>

Return ==
    /\ result # NoResult
    /\ result' = NoResult
    /\ UNCHANGED <<raw, processed, pc, files, run, dir_exists, reply>>

Init ==
    /\ raw \in PipelineRawInputs
    /\ processed = <<>>
    /\ pc = "raw"
    /\ files \in InitialDirs
    /\ run = NoRun
    /\ result = NoResult
    /\ dir_exists = TRUE
    /\ reply = NoReply

Next ==
    \/ Preprocess
    \/ StartProphetOnlyRun
    \/ StartFullRun
    \/ TrainProphetOnlyStep
    \/ TrainProphetFullStep
    \/ TrainArimaFullStep
    \/ Predict
    \/ PredictProphet
    \/ PredictEndpoint
    \/ Return

Spec == Init /\ [][Next]_vars

-----------------------------------------------------------------------------
(* Retraining: test_prophet_training runs over a directory that already
   holds a model for every key of the data while another process (the API)
   loads models. joblib.dump is followed at the grain of the file system. *)

(* The directory a completed earlier run over a longer window left behind *)
RECURSIVE SaveAll(_, _)
SaveAll(fs, combos) ==
    IF combos = <<>> THEN fs
    ELSE LET k == Head(combos)
             old == Fitted(Prophet, k[1], k[2], MIN_PROPHET_POINTS + 1)
         IN  SaveAll(WriteFile(fs, ProphetModelFilename(k[1], k[2]), old), Tail(combos))

(* joblib.dump(model, model_filename) opens the file for writing, which
   truncates it in place; until the pickle is written in full and the file
   closed, the file holds a prefix of the pickle, which does not load *)
DumpOpen ==
    /\ pc = "training"
    /\ run.kind = "prophet_only"
    /\ run.step = Prophet
    /\ LET k == run.combos[run.idx]
           r == train_prophet_model_prophet_only(processed, k[1], k[2], files, "ok")
       IN  /\ r.model # NoModel
           /\ files' = WriteFile(files, ProphetModelFilename(k[1], k[2]), Corrupt)
    /\ run' = [run EXCEPT !.step = "dumping"]
    /\ UNCHANGED <<raw, processed, pc, result, dir_exists, reply>>

(* joblib.dump returns, or raises with the file left as it is; the call of
   train_prophet_model returns and the loop counts it *)
DumpClose ==
    /\ pc = "training"
    /\ run.kind = "prophet_only"
    /\ run.step = "dumping"
    /\ \E env \in {"ok", "dump_raises_partial"} :
          LET k == run.combos[run.idx]
              r == train_prophet_model_prophet_only(processed, k[1], k[2], files, env)
          IN  /\ files' = r.files
              /\ run' = [ProphetOnlyAfter(r) EXCEPT !.step = Prophet]
    /\ pc' = IF run'.idx > Len(run.combos) THEN "done" ELSE "training"
    /\ UNCHANGED <<raw, processed, result, dir_exists, reply>>

(* A call of train_prophet_model that returns None without opening the file:
   too few rows, fit raises, or the file cannot be opened *)
TrainProphetOnlyNoDump ==
    /\ pc = "training"
    /\ run.kind = "prophet_only"
    /\ run.step = Prophet
    /\ \E env \in TrainOutcomes \ {"dump_raises_partial"} :
          LET k == run.combos[run.idx]
              r == train_prophet_model_prophet_only(processed, k[1], k[2], files, env)
          IN  /\ r.model = NoModel
              /\ files' = r.files
              /\ run' = ProphetOnlyAfter(r)
    /\ pc' = IF run'.idx > Len(run.combos) THEN "done" ELSE "training"
    /\ UNCHANGED <<raw, processed, result, dir_exists, reply>>

InitRetrain ==
    /\ raw \in PipelineRawInputs
    /\ processed = preprocess_data(raw)
    /\ pc = "preprocessed"
    /\ files = SaveAll(EmptyDir, UniqueCombinations(processed))
    /\ run = NoRun
    /\ result = NoResult
    /\ dir_exists = TRUE
    /\ reply = NoReply

NextRetrain ==
    \/ StartProphetOnlyRun
    \/ DumpOpen
    \/ DumpClose
    \/ TrainProphetOnlyNoDump
    \/ Predict
    \/ PredictProphet
    \/ Return

SpecRetrain == InitRetrain /\ [][NextRetrain]_vars

-----------------------------------------------------------------------------
(* api_integration.get_available_models and monitoring.check_model_health *)

IceCream == <<"Ice", "_", "Cream">>

(* filename.replace('.joblib', '') *)
StripJoblib(filename) == SelectSeq(filename, LAMBDA t : t # ".joblib")

(* str.split('_'): the pieces between the separators, empty ones included *)
RECURSIVE Split(_)
Split(str) ==
    IF \A i \in DOMAIN str : str[i] # "_" THEN <<str>>
    ELSE LET i == CHOOSE j \in DOMAIN str :
                      str[j] = "_" /\ \A h \in 1..(j - 1) : str[h] # "_"
         IN  <<SubSeq(str, 1, i - 1)>> \o Split(SubSeq(str, i + 1, Len(str)))

(* '_'.join(pieces) *)
RECURSIVE Join(_)
Join(pieces) ==
    IF pieces = <<>> THEN <<>>
    ELSE IF Len(pieces) = 1 THEN pieces[1]
    ELSE pieces[1] \o <<"_">> \o Join(Tail(pieces))

(* Mutant: the item is the fourth piece alone *)
ParseItemFourthPiece(parts) == parts[4]

(* item = '_'.join(parts[3:]) *)
ParseItem(parts) == Join(SubSeq(parts, 4, Len(parts)))

(* glob.glob(os.path.join(model_dir, "*.joblib")) *)
GlobJoblib(fs) == {f \in DOMAIN fs : f # <<>> /\ f[Len(f)] = ".joblib"}

ModelInfo(filename) ==
    LET parts == Split(StripJoblib(filename))
    IN  [model_type |-> parts[1], pincode |-> parts[3], item |-> ParseItem(parts),
         filename |-> filename]

(* The response dictionary: keys are the keys it has; a key it does not have
   is given total_models -1, message None. The order of glob is not
   specified, so available_models is the set of the entries of the list. *)
get_available_models(exists, fs) ==
    IF ~exists
    THEN [keys |-> {"available_models", "message"}, available_models |-> {},
          total_models |-> -1, message |-> "No trained models found."]
    ELSE LET model_files == GlobJoblib(fs)
             models_info == {ModelInfo(f) : f \in {g \in model_files :
                                                     Len(Split(StripJoblib(g))) >= 4}}
         IN  [keys |-> {"available_models", "total_models"},
              available_models |-> models_info,
              total_models |-> Cardinality(models_info), message |-> None]

(* check_model_health; sample is model_files[0], any file of the glob *)
check_model_health(exists, fs, sample) ==
    IF ~exists THEN [keys |-> {"status", "count"}, status |-> "no_models", count |-> 0]
    ELSE IF GlobJoblib(fs) = {}
    THEN [keys |-> {"status", "count"}, status |-> "no_models", count |-> 0]
    ELSE IF fs[sample] = Corrupt
    THEN [keys |-> {"status", "count", "error"}, status |-> "corrupted",
          count |-> Cardinality(GlobJoblib(fs))]
    ELSE [keys |-> {"status", "count"}, status |-> "healthy",
          count |-> Cardinality(GlobJoblib(fs))]

Reply(op, value) == [op |-> op, value |-> value]

ListedKinds == {Prophet, Arima}
ListedItems == {Milk, IceCream}
ListedTriples == {<<m, p, i>> : m \in ListedKinds, p \in {P1, P2}, i \in ListedItems}

(* The directory after the training calls of the triples of a set returned a
   model *)
RECURSIVE SaveTriples(_, _)
SaveTriples(fs, triples) ==
    IF triples = {} THEN fs
    ELSE LET t == CHOOSE x \in triples : TRUE
         IN  SaveTriples(WriteFile(fs, TrainFilename(t[1], t[2], t[3]),
                                   Fitted(t[1], t[2], t[3], MIN_PROPHET_POINTS)),
                         triples \ {t})

Notes == <<"notes", ".txt">>

(* What else the directory may hold: nothing, a file that is not a model, or
   the file of a save that broke off *)
ListedDirs ==
    UNION {{fs, WriteFile(fs, Notes, Corrupt),
            WriteFile(fs, TrainFilename(Prophet, P1, Milk), Corrupt)} :
           fs \in {SaveTriples(EmptyDir, T) : T \in SUBSET ListedTriples}}

GetAvailableModels ==
    /\ reply = NoReply
    /\ reply' = Reply("get_available_models", get_available_models(dir_exists, files))
    /\ UNCHANGED <<raw, processed, pc, files, run, result, dir_exists>>

CheckModelHealth ==
    /\ reply = NoReply
    /\ \E sample \in IF GlobJoblib(files) = {} THEN {Notes} ELSE GlobJoblib(files) :
          reply' = Reply("check_model_health", check_model_health(dir_exists, files, sample))
    /\ UNCHANGED <<raw, processed, pc, files, run, result, dir_exists>>

ReturnReply ==
    /\ reply # NoReply
    /\ reply' = NoReply
    /\ UNCHANGED <<raw, processed, pc, files, run, result, dir_exists>>

InitList ==
    /\ raw = <<>>
    /\ processed = <<>>
    /\ pc = "raw"
    /\ dir_exists \in BOOLEAN
    /\ files \in IF dir_exists THEN ListedDirs ELSE {EmptyDir}
    /\ run = NoRun
    /\ result = NoResult
    /\ reply = NoReply

NextList ==
    \/ GetAvailableModels
    \/ CheckModelHealth
    \/ ReturnReply

SpecList == InitList /\ [][NextList]_vars

-----------------------------------------------------------------------------
(* model_evaluation.py *)

MaxEvalRows == 2
MaxPreds == 2

RequiredColumns == {"ds", "y", "pincode", "item"}

(* evaluation_data: None, or a frame with its columns and its rows *)
NoneData == [given |-> FALSE, columns |-> {}, rows |-> <<>>]
Frame(columns, rows) == [given |-> TRUE, columns |-> columns, rows |-> rows]

(* DataFrame.empty *)
IsEmpty(df) == df.columns = {} \/ df.rows = <<>>

(* sort_values('ds'); the dates of one key are distinct *)
RECURSIVE SortValuesDs(_)
SortValuesDs(rows) ==
    IF rows = <<>> THEN <<>>
    ELSE LET i == CHOOSE j \in DOMAIN rows : \A h \in DOMAIN rows :
                      rows[j].ds < rows[h].ds \/ (rows[j].ds = rows[h].ds /\ j <= h)
             rest == [h \in 1..(Len(rows) - 1) |-> IF h < i THEN rows[h] ELSE rows[h + 1]]
         IN  <<rows[i]>> \o SortValuesDs(rest)

Abs(x) == IF x < 0 THEN -x ELSE x
Min(a, b) == IF a <= b THEN a ELSE b

(* Mutant: the sequences are scored as they are *)
PrefixUntruncated(values, n) == values

(* values[:n] *)
Prefix(values, n) == SubSeq(values, 1, Min(n, Len(values)))

(* round(num / den, 0) for num >= 0, den > 0: the nearest integer, a tie to
   the even one *)
RoundDiv(num, den) ==
    LET q == num \div den
        r == num % den
    IN  IF 2 * r < den THEN q
        ELSE IF 2 * r > den THEN q + 1
        ELSE IF q % 2 = 0 THEN q ELSE q + 1

(* The largest r in lo..hi with r * r <= x *)
RECURSIVE ISqrt(_, _, _)
ISqrt(x, lo, hi) ==
    IF lo >= hi THEN lo
    ELSE LET mid == (lo + hi + 1) \div 2
         IN  IF mid * mid <= x THEN ISqrt(x, mid, hi) ELSE ISqrt(x, lo, mid - 1)

(* The metrics are kept in hundredths, as round(., 2) leaves them. For fewer
   than 8 points no mean of integer errors lies halfway between two
   hundredths. *)

(* round(mean_absolute_error(actual_values, predictions), 2) *)
MAE(actual_values, predictions) ==
    RoundDiv(100 * SumSeq([i \in DOMAIN actual_values |->
                              Abs(actual_values[i] - predictions[i])]),
             Len(actual_values))

(* round(np.sqrt(mean_squared_error(actual_values, predictions)), 2) *)
RMSE(actual_values, predictions) ==
    LET squares == SumSeq([i \in DOMAIN actual_values |->
                              (actual_values[i] - predictions[i])
                                * (actual_values[i] - predictions[i])])
        largest == SumSeq([i \in DOMAIN actual_values |->
                              Abs(actual_values[i] - predictions[i])])
        twice == (40000 * squares) \div Len(actual_values)
    IN  (ISqrt(twice, 0, 200 * largest) + 1) \div 2

(* Mutant: no test for the all-zero window *)
MAPEAlwaysFinite(actual_values, predictions) == "finite"

(* mape: infinite when every actual value is 0, a finite number otherwise
   (the 1e-8 in the denominator keeps every quotient finite) *)
MAPE(actual_values, predictions) ==
    IF \A i \in DOMAIN actual_values : actual_values[i] = 0 THEN "inf" ELSE "finite"

(* sklearn's check of its inputs: equal lengths, no NaN *)
MetricsRaise(actual_values, predictions, nan) ==
    Len(actual_values) # Len(predictions) \/ nan

(* What model.predict does inside the evaluation: it raises, or gives its
   values, of which the first may be NaN. The model is whatever the file
   holds, so the number of values is not tied to the number of dates. *)
PredValues == {-1, 0, 3}

EvalOutcomes ==
    {[raises |-> TRUE, nan |-> FALSE, yhat |-> <<>>]}
    \cup {[raises |-> FALSE, nan |-> FALSE, yhat |-> p] : p \in SeqsUpTo(PredValues, MaxPreds)}
    \cup {[raises |-> FALSE, nan |-> TRUE, yhat |-> <<0>>]}

(* The returned dictionary (keys: the keys it has; a metric it does not have
   is -1 or None), the accesses to the directory, and what happened on the
   way: whether predict was called and raised, and the two sequences that
   were scored *)
EvalFailed(status, accesses) ==
    [status |-> status, keys |-> {"status"}, MAE |-> -1, RMSE |-> -1, MAPE |-> None,
     accesses |-> accesses, predict_raised |-> FALSE, actual_values |-> <<>>,
     predictions |-> <<>>]

evaluate_model_performance(pincode, item, model_type, evaluation_data, fs, env) ==
    LET loaded == load_model(pincode, item, model_type, fs)
        eval_series_data ==
            SortValuesDs(SelectSeq(evaluation_data.rows,
                                   LAMBDA r : r.pincode = pincode /\ r.item = item))
        actual_values == [i \in DOMAIN eval_series_data |-> eval_series_data[i].y]
        predictions == IF model_type = Arima /\ env.raises
                       THEN [i \in DOMAIN actual_values |-> 0]
                       ELSE env.yhat
        min_len == Min(Len(actual_values), Len(predictions))
        actual == Prefix(actual_values, min_len)
        predicted == Prefix(predictions, min_len)
        nan == env.nan /\ ~env.raises
    IN  IF pincode = EmptyStr \/ item = EmptyStr THEN EvalFailed("InvalidInput", <<>>)
        ELSE IF model_type \notin {Prophet, Arima} THEN EvalFailed("Unsupported", <<>>)
        ELSE IF loaded.model = NoModel THEN EvalFailed("ModelNotFound", loaded.accesses)
        ELSE IF ~evaluation_data.given \/ IsEmpty(evaluation_data)
        THEN EvalFailed("NoData", loaded.accesses)
        ELSE IF ~(RequiredColumns \subseteq evaluation_data.columns)
        THEN EvalFailed("MissingColumns", loaded.accesses)
        ELSE IF eval_series_data = <<>> THEN EvalFailed("NoDataForKey", loaded.accesses)
        ELSE IF model_type = Prophet /\ env.raises
        THEN [EvalFailed("PredictionFailed", loaded.accesses) EXCEPT !.predict_raised = TRUE]
        ELSE IF min_len = 0
        THEN [EvalFailed("NoOverlap", loaded.accesses) EXCEPT !.predict_raised = env.raises]
        ELSE IF MetricsRaise(actual, predicted, nan)
        THEN [EvalFailed("MetricsError", loaded.accesses) EXCEPT
                 !.predict_raised = env.raises, !.actual_values = actual,
                 !.predictions = predicted]
        ELSE [status |-> "Complete", keys |-> {"MAE", "RMSE", "MAPE", "status"},
              MAE |-> MAE(actual, predicted), RMSE |-> RMSE(actual, predicted),
              MAPE |-> MAPE(actual, predicted), accesses |-> loaded.accesses,
              predict_raised |-> env.raises, actual_values |-> actual,
              predictions |-> predicted]

(* Rows of evaluation data: preprocessed rows, one per key and day *)
EvalRow == [ds : 0..1, y : {0, 2}, pincode : {P1, P2}, item : {Milk, Bread}]

OnePerDay(rows) ==
    \A i, j \in DOMAIN rows :
        (KeyOf(rows[i]) = KeyOf(rows[j]) /\ rows[i].ds = rows[j].ds) => i = j

EvalFrames ==
    {NoneData, Frame({}, <<>>)}
    \cup {Frame(RequiredColumns, rows) :
             rows \in {r \in SeqsUpTo({x \in EvalRow : KeyedRecord(x)}, MaxEvalRows) :
                          OnePerDay(r)}}
    \cup {Frame(RequiredColumns \ {"y"},
                <<[ds |-> 0, y |-> 0, pincode |-> P1, item |-> Milk]>>)}

(* The call, kept with the value it returned *)
Evaluation(pincode, item, model_type, evaluation_data, env, fs) ==
    [pincode |-> pincode, item |-> item, model_type |-> model_type,
     evaluation_data |-> evaluation_data, env |-> env,
     file_state |-> FileState(fs, ModelFilename(model_type, pincode, item)),
     returned |-> evaluate_model_performance(pincode, item, model_type,
                                             evaluation_data, fs, env)]

EvaluateModel ==
    /\ reply = NoReply
    /\ \E pincode \in RequestPincodes, item \in RequestItems, model_type \in ModelTypes,
          evaluation_data \in EvalFrames, env \in EvalOutcomes :
          reply' = Reply("evaluate_model_performance",
                         Evaluation(pincode, item, model_type, evaluation_data, env, files))
    /\ UNCHANGED <<raw, processed, pc, files, run, result, dir_exists>>

EvalDirs ==
    {EmptyDir,
     SaveTriples(EmptyDir, {<<Prophet, P1, Milk>>, <<Arima, P1, Milk>>}),
     WriteFile(SaveTriples(EmptyDir, {<<Arima, P1, Milk>>}),
               TrainFilename(Prophet, P1, Milk), Corrupt)}

InitEval ==
    /\ raw = <<>>
    /\ processed = <<>>
    /\ pc = "raw"
    /\ dir_exists = TRUE
    /\ files \in EvalDirs
    /\ run = NoRun
    /\ result = NoResult
    /\ reply = NoReply

NextEval ==
    \/ EvaluateModel
    \/ ReturnReply

SpecEval == InitEval /\ [][NextEval]_vars

-----------------------------------------------------------------------------
(* monitoring.monitor_model_performance_daily *)

(* The value the run returns: None, or the list evaluation_results; until
   the run returns, the list as far as it has been built *)
MonitorValue(results, returned) == [results |-> results, returned |-> returned]

(* What predict does on a window of n dates: it raises, or gives n values *)
MonitorOutcomes(n) ==
    {[raises |-> TRUE, nan |-> FALSE, yhat |-> <<>>]}
    \cup {[raises |-> FALSE, nan |-> FALSE, yhat |-> [i \in 1..n |-> v]] : v \in {0, 1, 3}}

Bundle(pincode, item, prophet_metrics, arima_metrics) ==
    [pincode |-> pincode, item |-> item, prophet_metrics |-> prophet_metrics,
     arima_metrics |-> arima_metrics, evaluation_date |-> "today"]

(* Mutant: a key whose prophet evaluation did not complete gets no entry *)
AppendBundleIfComplete(evaluation_results, bundle) ==
    IF bundle.prophet_metrics.status = "Complete"
    THEN Append(evaluation_results, bundle) ELSE evaluation_results

(* evaluation_results.append({...}) *)
AppendBundle(evaluation_results, bundle) == Append(evaluation_results, bundle)

(* Steps 1 to 3: fetch, preprocess, unique combinations; each way out before
   the loop is a bare return *)
StartMonitoring ==
    /\ pc = "raw"
    /\ reply = NoReply
    /\ \E fetch \in {"ok", "raises"} :
          IF fetch = "raises" \/ raw = <<>> \/ preprocess_data(raw) = <<>>
          THEN /\ pc' = "done"
               /\ reply' = Reply("monitor_model_performance_daily", MonitorValue(<<>>, "None"))
               /\ run' = [NoRun EXCEPT !.kind = "monitoring"]
               /\ UNCHANGED processed
          ELSE /\ pc' = "monitoring"
               /\ processed' = preprocess_data(raw)
               /\ reply' = Reply("monitor_model_performance_daily",
                                 MonitorValue(<<>>, "running"))
               /\ run' = [NoRun EXCEPT !.kind = "monitoring",
                                       !.combos = UniqueCombinations(processed'),
                                       !.idx = 1]
    /\ UNCHANGED <<raw, files, result, dir_exists>>

(* One iteration of the loop of step 4: the prophet and the arima model of
   the key are evaluated on the whole preprocessed frame and one entry is
   appended; after the last key the list is returned *)
MonitorKey ==
    /\ pc = "monitoring"
    /\ LET k == run.combos[run.idx]
           n == Len(FilterKey(processed, k[1], k[2]))
           evaluation_data == Frame(RequiredColumns, processed)
       IN  \E env_p \in MonitorOutcomes(n), env_a \in MonitorOutcomes(n) :
             LET prophet_metrics == evaluate_model_performance(
                                       k[1], k[2], Prophet, evaluation_data, files, env_p)
                 arima_metrics == evaluate_model_performance(
                                       k[1], k[2], Arima, evaluation_data, files, env_a)
                 last == run.idx = Len(run.combos)
             IN  /\ reply' = Reply("monitor_model_performance_daily",
                                   MonitorValue(
                                     AppendBundle(reply.value.results,
                                       Bundle(k[1], k[2], prophet_metrics, arima_metrics)),
                                     IF last THEN "list" ELSE "running"))
                 /\ run' = [run EXCEPT !.idx = @ + 1,
                                       !.attempts = @ \o <<Attempt(Prophet, k),
                                                           Attempt(Arima, k)>>]
                 /\ pc' = IF last THEN "done" ELSE "monitoring"
    /\ UNCHANGED <<raw, processed, files, result, dir_exists>>

MonitorRawInputs == {<<>>} \cup {Span(Key1, a) \o Span(Key2, b) : a \in {1, 2, 3}, b \in {0, 2, 3}}

InitMonitor ==
    /\ raw \in MonitorRawInputs
    /\ processed = <<>>
    /\ pc = "raw"
    /\ dir_exists = TRUE
    /\ files \in EvalDirs
    /\ run = NoRun
    /\ result = NoResult
    /\ reply = NoReply

NextMonitor ==
    \/ StartMonitoring
    \/ MonitorKey

SpecMonitor == InitMonitor /\ [][NextMonitor]_vars

-----------------------------------------------------------------------------
(* The read side as a whole: prediction.py, model_evaluation.py,
   get_available_models and check_model_health over one directory *)

(* Mutant: a load leaves a file of its own in the directory *)
AfterAccessesLeavingAFile(fs, accesses) ==
    IF \E i \in DOMAIN accesses : accesses[i] = "load"
    THEN WriteFile(fs, <<"load", ".tmp">>, Corrupt) ELSE fs

(* The directory after the accesses of a call: os.path.exists, glob.glob and
   joblib.load only read *)
AfterAccesses(fs, accesses) == fs

ReadPredict ==
    /\ result = NoResult
    /\ reply = NoReply
    /\ \E pincode \in RequestPincodes, item \in RequestItems,
          model_type \in ModelTypes, env \in ForecastOutcomes :
          result' = predict_next_day_demand(pincode, item, model_type, files, env)
    /\ files' = AfterAccesses(files, result'.accesses)
    /\ UNCHANGED <<raw, processed, pc, run, dir_exists, reply>>

ReadEvaluate ==
    /\ result = NoResult
    /\ reply = NoReply
    /\ \E pincode \in RequestPincodes, item \in RequestItems, model_type \in ModelTypes,
          evaluation_data \in EvalFrames, env \in EvalOutcomes :
          reply' = Reply("evaluate_model_performance",
                         Evaluation(pincode, item, model_type, evaluation_data, env, files))
    /\ files' = AfterAccesses(files, reply'.value.returned.accesses)
    /\ UNCHANGED <<raw, processed, pc, run, dir_exists, result>>

ReadAvailableModels ==
    /\ result = NoResult
    /\ reply = NoReply
    /\ reply' = Reply("get_available_models", get_available_models(dir_exists, files))
    /\ files' = AfterAccesses(files, IF dir_exists THEN <<"exists", "glob">>
                                     ELSE <<"exists">>)
    /\ UNCHANGED <<raw, processed, pc, run, dir_exists, result>>

ReadModelHealth ==
    /\ result = NoResult
    /\ reply = NoReply
    /\ \E sample \in IF GlobJoblib(files) = {} THEN {Notes} ELSE GlobJoblib(files) :
          reply' = Reply("check_model_health", check_model_health(dir_exists, files, sample))
    /\ files' = AfterAccesses(files, IF ~dir_exists THEN <<"exists">>
                                     ELSE IF GlobJoblib(files) = {} THEN <<"exists", "glob">>
                                     ELSE <<"exists", "glob", "load">>)
    /\ UNCHANGED <<raw, processed, pc, run, dir_exists, result>>

ReadReturn ==
    /\ result # NoResult \/ reply # NoReply
    /\ result' = NoResult
    /\ reply' = NoReply
    /\ UNCHANGED <<raw, processed, pc, files, run, dir_exists>>

InitRead ==
    /\ raw = <<>>
    /\ processed = <<>>
    /\ pc = "raw"
    /\ dir_exists \in BOOLEAN
    /\ files \in IF dir_exists THEN EvalDirs ELSE {EmptyDir}
    /\ run = NoRun
    /\ result = NoResult
    /\ reply = NoReply

NextRead ==
    \/ ReadPredict
    \/ ReadEvaluate
    \/ ReadAvailableModels
    \/ ReadModelHealth
    \/ ReadReturn

SpecRead == InitRead /\ [][NextRead]_vars

-----------------------------------------------------------------------------
(* Keys whose pincode or item holds the separator "_". The order in which
   test_prophet_training meets the keys is the order of their first records
   in the data, which the data source does not fix. *)

KeyA == <<<<"11">>, <<"0", "_", "Milk">>>>
KeyB == <<<<"11", "_", "0">>, Milk>>
SeparatorKeys == {KeyA, KeyB, Key1}

KeysRawInputs ==
    {Span(KeyA, a) \o Span(KeyB, b) \o Span(Key1, c) :
        a \in {0, 10, 11}, b \in {0, 10, 11}, c \in {0, 3, 10}}

(* The combinations of a run together with what the libraries do during the
   training call of each *)
WithOutcomes(combos, envs) ==
    [i \in DOMAIN combos |-> <<combos[i][1], combos[i][2], envs[i]>>]

(* The loop of test_prophet_training over combos in their order: the
   directory and the counters after the last call *)
RECURSIVE SequentialRun(_, _, _)
SequentialRun(data, combos, start) ==
    IF combos = <<>> THEN start
    ELSE LET k == Head(combos)
             r == train_prophet_model_prophet_only(data, k[1], k[2], start.files, k[3])
             ok == r.model # NoModel
         IN  SequentialRun(data, Tail(combos),
                           [files |-> r.files,
                            trained |-> IF ok THEN start.trained + 1 ELSE start.trained,
                            failed |-> IF ok THEN start.failed ELSE start.failed + 1])

(* test_prophet_training up to the loop, with the outcome of each call of
   the loop drawn in advance *)
StartAnyOrderRun ==
    /\ pc = "preprocessed"
    /\ processed # <<>>
    /\ LET combos == UniqueCombinations(processed)
       IN  \E envs \in [DOMAIN combos -> TrainOutcomes] :
              run' = [NoRun EXCEPT !.kind = "any_order",
                                   !.combos = WithOutcomes(combos, envs),
                                   !.idx = 1, !.step = Prophet]
    /\ pc' = "training"
    /\ UNCHANGED <<raw, processed, files, result, dir_exists, reply>>

(* One iteration of the loop for any key that has not had its call yet *)
TrainAnyKey ==
    /\ pc = "training"
    /\ run.kind = "any_order"
    /\ \E i \in DOMAIN run.combos :
          LET k == run.combos[i]
              r == train_prophet_model_prophet_only(processed, k[1], k[2], files, k[3])
              ok == r.model # NoModel
          IN  /\ \A j \in DOMAIN run.attempts : run.attempts[j] # Attempt(Prophet, k)
              /\ files' = r.files
              /\ run' = [run EXCEPT !.idx = @ + 1,
                                    !.trained = IF ok THEN @ + 1 ELSE @,
                                    !.failed = IF ok THEN @ ELSE @ + 1,
                                    !.attempts = Append(@, Attempt(Prophet, k))]
    /\ pc' = IF run'.idx > Len(run.combos) THEN "done" ELSE "training"
    /\ UNCHANGED <<raw, processed, result, dir_exists, reply>>

InitKeys ==
    /\ raw \in KeysRawInputs
    /\ processed = preprocess_data(raw)
    /\ pc = "preprocessed"
    /\ files = EmptyDir
    /\ run = NoRun
    /\ result = NoResult
    /\ dir_exists = TRUE
    /\ reply = NoReply

NextKeys ==
    \/ StartProphetOnlyRun
    \/ TrainProphetOnlyStep
    \/ StartAnyOrderRun
    \/ TrainAnyKey

SpecKeys == InitKeys /\ [][NextKeys]_vars

-----------------------------------------------------------------------------
(* Repeated calls of predict_next_day_demand. model.predict of a fitted
   model is a function of the model and of the date it is asked for (yhat is
   computed without sampling; the ARIMA forecast of one step does not look
   at the date). date.today() is read anew by every call. *)

MaxToday == 1

(* The forecasts, in the order the sample models give them *)
ForecastTable ==
    <<[raises |-> FALSE, nan |-> FALSE, yhat2 |-> 1],
      [raises |-> FALSE, nan |-> FALSE, yhat2 |-> 5],
      [raises |-> TRUE, nan |-> FALSE, yhat2 |-> 0],
      [raises |-> FALSE, nan |-> FALSE, yhat2 |-> -13],
      [raises |-> FALSE, nan |-> TRUE, yhat2 |-> 0],
      [raises |-> FALSE, nan |-> FALSE, yhat2 |-> 3]>>

(* date.today() + timedelta(days=1) *)
Tomorrow(today) == today + 1

(* Mutant: the forecast also depends on how many calls came before *)
model_predict_with_history(model, model_type, ds) ==
    ForecastTable[((model.n + ds + Len(reply.value.calls)) % Len(ForecastTable)) + 1]

(* model.predict(future_df) of a Prophet model, model.predict(n_periods=1)
   of an ARIMA model *)
model_predict(model, model_type, ds) ==
    IF model_type = Arima THEN ForecastTable[(model.n % Len(ForecastTable)) + 1]
    ELSE ForecastTable[((model.n + ds) % Len(ForecastTable)) + 1]

NoCalls == Reply("calls", [status |-> None, calls |-> <<>>])

(* One call: the clock, the directory it found and the dictionary it
   returned *)
Call(today, fs, returned) == [today |-> today, files |-> fs, returned |-> returned]

PredictOnDay ==
    /\ Len(reply.value.calls) < 2
    /\ \E today \in 0..MaxToday, pincode \in {P1}, item \in RequestItems,
          model_type \in ModelTypes :
          LET model == load_model(pincode, item, model_type, files).model
              env == model_predict(model, model_type, Tomorrow(today))
          IN  /\ result' = predict_next_day_demand(pincode, item, model_type, files, env)
              /\ reply' = [reply EXCEPT !.value.calls =
                                            Append(@, Call(today, files, result'))]
    /\ UNCHANGED <<raw, processed, pc, files, run, dir_exists>>

(* The caller has taken both results *)
ForgetCalls ==
    /\ Len(reply.value.calls) = 2
    /\ reply' = NoCalls
    /\ result' = NoResult
    /\ UNCHANGED <<raw, processed, pc, files, run, dir_exists>>

(* A training call for (P1, Milk) between two predictions *)
RetrainBetweenCalls ==
    /\ Len(reply.value.calls) = 1
    /\ \E n \in {MIN_PROPHET_POINTS, MIN_PROPHET_POINTS + 1}, env \in TrainOutcomes :
          files' = train_prophet_model_prophet_only(preprocess_data(Span(Key1, n)),
                                                    P1, Milk, files, env).files
    /\ files' # files
    /\ UNCHANGED <<raw, processed, pc, run, result, dir_exists, reply>>

RepeatDirs ==
    {EmptyDir,
     WriteFile(EmptyDir, ModelFilename(Arima, P1, Milk),
               Fitted(Arima, P1, Milk, MIN_ARIMA_POINTS)),
     WriteFile(WriteFile(EmptyDir, ModelFilename(Arima, P1, Milk),
                         Fitted(Arima, P1, Milk, MIN_ARIMA_POINTS + 2)),
               ModelFilename(Prophet, P1, Milk),
               Fitted(Prophet, P1, Milk, MIN_PROPHET_POINTS + 1))}

InitRepeat ==
    /\ raw = <<>>
    /\ processed = <<>>
    /\ pc = "raw"
    /\ files \in RepeatDirs
    /\ run = NoRun
    /\ result = NoResult
    /\ dir_exists = TRUE
    /\ reply = NoCalls

NextRepeat ==
    \/ PredictOnDay
    \/ ForgetCalls
    \/ RetrainBetweenCalls

SpecRepeat == InitRepeat /\ [][NextRepeat]_vars

-----------------------------------------------------------------------------
(* The callers of preprocess_data side by side: the two training entry
   points and the monitoring run over the same data *)

CallersRawInputs ==
    {<<>>} \cup {Span(Key1, a) \o Span(Key2, b) : a \in {3, 10}, b \in {0, 3, 10}}

InitCallers ==
    /\ raw \in CallersRawInputs
    /\ processed = <<>>
    /\ pc = "raw"
    /\ files = EmptyDir
    /\ run = NoRun
    /\ result = NoResult
    /\ dir_exists = TRUE
    /\ reply = NoReply

NextCallers ==
    \/ Preprocess
    \/ StartProphetOnlyRun
    \/ StartFullRun
    \/ TrainProphetOnlyStep
    \/ TrainProphetFullStep
    \/ TrainArimaFullStep
    \/ StartMonitoring
    \/ MonitorKey

SpecCallers == InitCallers /\ [][NextCallers]_vars

-----------------------------------------------------------------------------
(* scheduler_integration.py: run_daily_predictions and run_batch_predictions *)

(* The value of a run: the list of results as far as it has been built,
   whether the run has returned it, and the two counters of the daily run
   (the batch run keeps none; they stay 0) *)
ScheduleValue(results, returned, successful, failed) ==
    [results |-> results, returned |-> returned,
     successful_predictions |-> successful, failed_predictions |-> failed]

(* The dictionary the except branch of the loop puts in the place of a
   result *)
ErrorResult(pincode, item) ==
    [pincode |-> pincode, item |-> item, predicted_demand |-> 0,
     restock_quantity |-> 0, status |-> "Error"]

(* Mutant: the except branch only logs *)
AfterRaiseWithoutResult(results, pincode, item) == results

(* The list after the except branch of one iteration *)
AfterRaise(results, pincode, item) == Append(results, ErrorResult(pincode, item))

(* What a call of predict_next_day_demand can do inside the loop: return
   under some outcome of the forecast, or be left by an exception *)
CallOutcomes == {[escapes |-> FALSE, env |-> e] : e \in ForecastOutcomes}
                    \cup {[escapes |-> TRUE, env |-> CHOOSE e \in ForecastOutcomes : e.raises]}

(* run_daily_predictions up to the loop: the combinations are those of the
   raw records of the last 7 days; a failed fetch counts as none *)
StartDailyPredictions ==
    /\ pc = "raw"
    /\ \E fetch \in {"ok", "raises"} :
          LET unique_combinations == IF fetch = "raises" THEN <<>>
                                     ELSE UniqueCombinations(raw)
          IN  IF unique_combinations = <<>>
              THEN /\ pc' = "done"
                   /\ run' = [NoRun EXCEPT !.kind = "daily", !.step = Prophet]
                   /\ reply' = Reply("run_daily_predictions",
                                     ScheduleValue(<<>>, "list", 0, 0))
              ELSE /\ pc' = "predicting"
                   /\ run' = [NoRun EXCEPT !.kind = "daily", !.step = Prophet,
                                           !.combos = unique_combinations, !.idx = 1]
                   /\ reply' = Reply("run_daily_predictions",
                                     ScheduleValue(<<>>, "running", 0, 0))
    /\ UNCHANGED <<raw, processed, files, result, dir_exists>>

(* The lists a caller hands to run_batch_predictions: any pairs, also the
   same pair twice *)
BatchLists == SeqsUpTo({Key1, Key2}, 2)

(* run_batch_predictions up to the loop *)
StartBatchPredictions ==
    /\ pc = "raw"
    /\ \E pincode_item_list \in BatchLists, model_type \in {Prophet, Arima} :
          /\ run' = [NoRun EXCEPT !.kind = "batch", !.step = model_type,
                                  !.combos = pincode_item_list, !.idx = 1]
          /\ pc' = IF pincode_item_list = <<>> THEN "done" ELSE "predicting"
          /\ reply' = Reply("run_batch_predictions",
                            ScheduleValue(<<>>,
                                          IF pincode_item_list = <<>> THEN "list"
                                          ELSE "running", 0, 0))
    /\ UNCHANGED <<raw, processed, files, result, dir_exists>>

(* One iteration of the loop of either run; after the last one the list is
   returned *)
SchedulePredictKey ==
    /\ pc = "predicting"
    /\ \E call \in CallOutcomes :
          LET k == run.combos[run.idx]
              prediction_result == predict_next_day_demand(k[1], k[2], run.step,
                                                           files, call.env)
              escaped == call.escapes \/ prediction_result.raised
              success == ~escaped /\ prediction_result.status = "Success"
              counted == run.kind = "daily"
              last == run.idx = Len(run.combos)
              v == reply.value
          IN  /\ reply' = [reply EXCEPT !.value =
                    ScheduleValue(
                      IF escaped THEN AfterRaise(v.results, k[1], k[2])
                      ELSE Append(v.results, prediction_result),
                      IF last THEN "list" ELSE "running",
                      IF counted /\ success THEN v.successful_predictions + 1
                      ELSE v.successful_predictions,
                      IF counted /\ ~success THEN v.failed_predictions + 1
                      ELSE v.failed_predictions)]
              /\ run' = [run EXCEPT !.idx = @ + 1,
                                    !.attempts = Append(@, Attempt(run.step, k))]
              /\ pc' = IF last THEN "done" ELSE "predicting"
    /\ UNCHANGED <<raw, processed, files, result, dir_exists>>

ScheduleDirs ==
    {EmptyDir,
     WriteFile(EmptyDir, ModelFilename(Prophet, P1, Milk),
               Fitted(Prophet, P1, Milk, MIN_PROPHET_POINTS)),
     WriteFile(WriteFile(EmptyDir, ModelFilename(Prophet, P1, Milk),
                         Fitted(Prophet, P1, Milk, MIN_PROPHET_POINTS)),
               ModelFilename(Arima, P2, Bread),
               Fitted(Arima, P2, Bread, MIN_ARIMA_POINTS))}

InitSchedule ==
    /\ raw \in MonitorRawInputs
    /\ processed = <<>>
    /\ pc = "raw"
    /\ files \in ScheduleDirs
    /\ run = NoRun
    /\ result = NoResult
    /\ dir_exists = TRUE
    /\ reply = NoReply

NextSchedule ==
    \/ StartDailyPredictions
    \/ StartBatchPredictions
    \/ SchedulePredictKey

SpecSchedule == InitSchedule /\ [][NextSchedule]_vars

-----------------------------------------------------------------------------
(* Properties of preprocess_data *)

RawDates(k) == {raw[i].date : i \in {j \in DOMAIN raw : KeyOf(raw[j]) = k}}

RowsOf(k) == {i \in DOMAIN processed : KeyOf(processed[i]) = k}

RECURSIVE TotalOver(_)
TotalOver(I) ==
    IF I = {} THEN 0
    ELSE LET i == CHOOSE j \in I : TRUE
         IN  raw[i].sales_quantity + TotalOver(I \ {i})

RawTotal(k, d) ==
    TotalOver({i \in DOMAIN raw : KeyOf(raw[i]) = k /\ raw[i].date = d})

SetMin(S) == CHOOSE x \in S : \A y \in S : x <= y
SetMax(S) == CHOOSE x \in S : \A y \in S : x >= y

(* C1: for every key present in a non-empty input, the output of
   preprocess_data has exactly one row per calendar day from the key's
   earliest to its latest observed date, no row outside that range, and the
   rows are in date order; a key seen on one date has a one-row series. *)
C1_DailyContiguous ==
    pc = "preprocessed" =>
        \A k \in Keys :
            RawDates(k) # {} =>
                LET lo == SetMin(RawDates(k))
                    hi == SetMax(RawDates(k))
                    rows == FilterKey(processed, k[1], k[2])
                IN  /\ Len(rows) = hi - lo + 1
                    /\ \A i \in DOMAIN rows : rows[i].ds = lo + i - 1
                    /\ \A d \in lo..hi :
                          Cardinality({i \in RowsOf(k) : processed[i].ds = d}) = 1

(* A key with a gap between its observed dates and a key observed on a
   single date have both been preprocessed *)
C1_Witness ==
    /\ pc = "preprocessed"
    /\ \E k \in Keys : \E d \in 0..MaxDay :
          /\ d \notin RawDates(k)
          /\ \E a \in RawDates(k) : a < d
          /\ \E b \in RawDates(k) : b > d
    /\ \E k \in Keys : Cardinality(RawDates(k)) = 1 /\ Cardinality(RowsOf(k)) = 1

(* C2: every output row of a key carries the sum of the quantities of the
   input records of that key on the row's day, which is 0 for a day without
   a record of that key. *)
C2_DailySums ==
    pc = "preprocessed" =>
        \A i \in DOMAIN processed :
            LET k == KeyOf(processed[i])
                d == processed[i].ds
            IN  /\ processed[i].y = RawTotal(k, d)
                /\ (d \notin RawDates(k) => processed[i].y = 0)

(* A day with two records of one key (quantities added) and a zero-filled
   day have both been produced *)
C2_Witness ==
    /\ pc = "preprocessed"
    /\ \E i \in DOMAIN processed :
          LET k == KeyOf(processed[i])
              d == processed[i].ds
          IN  /\ Cardinality({j \in DOMAIN raw : KeyOf(raw[j]) = k /\ raw[j].date = d}) = 2
              /\ processed[i].y = 3
    /\ \E i \in DOMAIN processed :
          /\ processed[i].ds \notin RawDates(KeyOf(processed[i]))
          /\ processed[i].y = 0

-----------------------------------------------------------------------------
(* Properties of training *)

SeriesLen(k) == Len(FilterKey(processed, k[1], k[2]))

ShortKeys == {k \in Keys : SeriesLen(k) >= 1 /\ SeriesLen(k) < 10}

DistinctKeys == {KeyOf(processed[i]) : i \in DOMAIN processed}

AttemptsOf(model_type, k) ==
    Cardinality({i \in DOMAIN run.attempts : run.attempts[i] = Attempt(model_type, k)})

(* C3: for a key whose series has fewer than 10 points no training entry
   point produces a model: no model file of either kind exists for the key
   (the directory holds none at the start), and the counters of trained
   models never exceed the number of attempted keys that have 10 points or
   more. *)
C3_ShortSeriesNeverTrained ==
    /\ \A k \in ShortKeys : \A model_type \in {Prophet, Arima} :
          ~Exists(files, ModelFilename(model_type, k[1], k[2]))
    /\ \A model_type \in {Prophet, Arima} :
          (IF model_type = Prophet THEN run.trained ELSE run.trained_arima)
              <= Cardinality({k \in Keys \ ShortKeys : AttemptsOf(model_type, k) > 0})

(* C4: when a training run has ended, every distinct key of the
   preprocessed data has been attempted exactly once (once per model kind in
   model_training.py), in the order of the data, whatever failed on the way;
   in test_prophet_training the trained and failed counters add up to the
   number of distinct keys, every key with fewer than 10 points being among
   the failed. *)
C4_EveryKeyAttemptedOnce ==
    (pc = "done" /\ run.kind # None) =>
        /\ run.combos = UniqueCombinations(processed)
        /\ \A k \in Keys :
              /\ AttemptsOf(Prophet, k) = IF k \in DistinctKeys THEN 1 ELSE 0
              /\ AttemptsOf(Arima, k) =
                    IF k \in DistinctKeys /\ run.kind = "full" THEN 1 ELSE 0
        /\ Len(run.attempts) =
              Cardinality(DistinctKeys) * (IF run.kind = "full" THEN 2 ELSE 1)
        /\ run.kind = "prophet_only" =>
              /\ run.trained + run.failed = Cardinality(DistinctKeys)
              /\ run.failed >= Cardinality(ShortKeys)
        /\ run.kind = "full" =>
              /\ run.trained <= Cardinality(DistinctKeys)
              /\ run.trained_arima <= Cardinality(DistinctKeys)

(* A run of test_prophet_training over two keys has ended in which the
   first key failed for lack of points and the second was trained *)
C4_Witness ==
    /\ pc = "done"
    /\ run.kind = "prophet_only"
    /\ run.combos = <<Key1, Key2>>
    /\ Key1 \in ShortKeys
    /\ run.trained = 1
    /\ run.failed = 1
    /\ FileState(files, ModelFilename(Prophet, P2, Bread)) = "ok"

-----------------------------------------------------------------------------
(* Properties of prediction *)

PredictOps == {"predict_next_day_demand", "predict_next_day_demand_prophet"}

ValidRequest(r) ==
    /\ r.request[1] # EmptyStr
    /\ r.request[2] # EmptyStr
    /\ r.request[3] \in {Prophet, Arima}

(* C5: a result with status Success has a predicted demand that is a
   non-negative integer and a restock quantity of exactly that demand plus
   5, whatever function and model kind produced it. *)
C5_RestockIsDemandPlusBuffer ==
    result.status = "Success" =>
        /\ result.predicted_demand \in Nat
        /\ result.restock_quantity = result.predicted_demand + 5

(* A successful ARIMA prediction whose forecast was clamped or rounded to 0 *)
C5_Witness ==
    /\ result.status = "Success"
    /\ result.request[3] = Arima
    /\ result.predicted_demand = 0
    /\ result.restock_quantity = 5

(* C6: no exception leaves a predict function; when the forecasting call
   raised, the result is a complete dictionary for the requested key with
   status PredictionFailed and both quantities 0; and every result whose
   status is not Success has both quantities 0. *)
C6_ForecastFailureIsAResult ==
    result.op # None =>
        /\ ~result.raised
        /\ result.forecast_raised =>
              /\ result.status = "PredictionFailed"
              /\ result.pincode = result.request[1]
              /\ result.item = result.request[2]
        /\ result.status # "Success" =>
              /\ result.predicted_demand = 0
              /\ result.restock_quantity = 0

(* The forecasting call of predict_next_day_demand raised on a loaded model *)
C6_Witness ==
    /\ result.op = "predict_next_day_demand"
    /\ result.file_state = "ok"
    /\ result.forecast_raised
    /\ result.status = "PredictionFailed"

(* C7: a predict function called with an empty pincode or an empty item
   returns status InvalidInput and has made no registry access. *)
C7_EmptyKeyIsInvalidInput ==
    (result.op \in PredictOps
        /\ (result.request[1] = EmptyStr \/ result.request[2] = EmptyStr)) =>
        /\ result.status = "InvalidInput"
        /\ result.accesses = <<>>

(* C8: a predict function called for a valid key and kind whose model file
   does not exist returns status ModelNotFound with both quantities 0 and
   the requested pincode and item, and no exception leaves it. *)
C8_MissingModelIsModelNotFound ==
    (result.op \in PredictOps /\ ValidRequest(result)
        /\ result.file_state = "absent") =>
        /\ ~result.raised
        /\ result.status = "ModelNotFound"
        /\ result.predicted_demand = 0
        /\ result.restock_quantity = 0
        /\ result.pincode = result.request[1]
        /\ result.item = result.request[2]

(* predict_next_day_demand was called for a key that has no model file *)
C8_Witness ==
    /\ result.op = "predict_next_day_demand"
    /\ result.request = <<P1, Milk, Prophet>>
    /\ result.file_state = "absent"
    /\ result.status = "ModelNotFound"

(* C9: predict_next_day_demand called for a non-empty key with a model kind
   other than 'prophet' and 'arima' returns the unsupported-kind status,
   whether or not a file of that kind name exists. *)
C9_UnknownKindIsUnsupported ==
    (result.op = "predict_next_day_demand"
        /\ result.request[1] # EmptyStr /\ result.request[2] # EmptyStr
        /\ result.request[3] \notin {Prophet, Arima}) =>
        result.status \in {"Unsupported", "InvalidInput"}

(* C10 as claimed: the status of a prediction for a key whose file exists
   but cannot be deserialized differs from the status for a key without a
   file (ModelNotFound). *)
C10_CorruptDistinctFromMissing ==
    (result.op \in PredictOps /\ ValidRequest(result)
        /\ result.file_state = "corrupt") =>
        result.status # "ModelNotFound"

(* C10 as amended: load_model raises neither for a missing file nor for a
   file that fails to deserialize and returns None in both cases; the
   predict functions then return the same ModelNotFound result with zero
   quantities, the two cases differing only in whether a load was tried. *)
C10_LoadFailuresAreAllNotFound ==
    /\ \A pincode \in {P1, P2}, item \in {Milk, Bread}, model_type \in ModelTypes :
          LET fn == ModelFilename(model_type, pincode, item)
              ld == load_model(pincode, item, model_type, files)
          IN  /\ ~ld.raised
              /\ FileState(files, fn) # "ok" => ld.model = NoModel
              /\ FileState(files, fn) = "ok" => ld.model = files[fn]
    /\ (result.op \in PredictOps /\ ValidRequest(result)
           /\ result.file_state \in {"absent", "corrupt"}) =>
          /\ ~result.raised
          /\ result.status = "ModelNotFound"
          /\ result.predicted_demand = 0
          /\ result.restock_quantity = 0
          /\ result.accesses = IF result.file_state = "absent" THEN <<"exists">>
                               ELSE <<"exists", "load">>

(* predict_next_day_demand was called for a key whose file is corrupt *)
C10_Witness ==
    /\ result.op = "predict_next_day_demand"
    /\ ValidRequest(result)
    /\ result.file_state = "corrupt"
    /\ result.status = "ModelNotFound"

-----------------------------------------------------------------------------
(* Properties of saving over an existing model *)

(* C11: a load of a key that happens while that key's model is being saved
   over an existing one sees a complete model, the old one or the new one:
   the file it reads is loadable and the call does not report the model as
   missing *)
C11_LoadDuringSaveSeesAModel ==
    (/\ run.step = "dumping"
     /\ result.op \in PredictOps
     /\ result.request = <<run.combos[run.idx][1], run.combos[run.idx][2], Prophet>>)
    => (result.file_state = "ok" /\ result.status # "ModelNotFound")

(* C12: a training call that returns a model has saved it under the very
   name the loading side builds for the same kind, pincode and item, and
   loading that triple right after the call gives back the model that was
   saved *)
C12_SavedModelLoadsBack ==
    [][(/\ Len(run'.attempts) = Len(run.attempts) + 1
        /\ run'.trained + run'.trained_arima = run.trained + run.trained_arima + 1)
       => LET a == run'.attempts[Len(run'.attempts)]
          IN  /\ TrainFilename(a[1], a[2], a[3]) = ModelFilename(a[1], a[2], a[3])
              /\ load_model(a[2], a[3], a[1], files').model
                    = Fitted(a[1], a[2], a[3], SeriesLen(<<a[2], a[3]>>))]_vars

C12_Witness ==
    /\ run.kind = "full"
    /\ run.trained >= 1
    /\ run.trained_arima >= 1
    /\ load_model(P1, Milk, Prophet, files).model = Fitted(Prophet, P1, Milk, 10)
    /\ load_model(P1, Milk, Arima, files).model = Fitted(Arima, P1, Milk, 10)

-----------------------------------------------------------------------------
(* Properties of the listing of the models *)

Persisted == {t \in ListedTriples : Exists(files, TrainFilename(t[1], t[2], t[3]))}

(* C13: the listing of an existing directory has, for every model saved
   under a kind, a pincode and an item (items with "_" included), exactly
   one entry whose model_type, pincode and item are those of the model, and
   its total is the number of the saved model files *)
C13_ListInvertsNaming ==
    (reply.op = "get_available_models" /\ dir_exists)
    => /\ \A t \in Persisted :
             Cardinality({e \in reply.value.available_models :
                             /\ e.model_type = <<t[1]>>
                             /\ e.pincode = t[2]
                             /\ e.item = t[3]}) = 1
       /\ reply.value.total_models = Cardinality(Persisted)

C13_Witness ==
    /\ reply.op = "get_available_models"
    /\ <<Arima, P2, IceCream>> \in Persisted
    /\ <<Prophet, P1, Milk>> \in Persisted
    /\ reply.value.total_models = 2
    /\ \E e \in reply.value.available_models : e.item = IceCream

(* C14: the listing of a directory that does not exist, or that holds no
   model file, is an empty collection together with a descriptive message
   and a total of 0, under the same keys as the listing of a directory that
   holds models *)
C14_EmptyListingHasMessageAndCount ==
    (reply.op = "get_available_models" /\ (~dir_exists \/ GlobJoblib(files) = {}))
    => /\ reply.value.available_models = {}
       /\ "message" \in reply.value.keys
       /\ "total_models" \in reply.value.keys
       /\ reply.value.total_models = 0
       /\ reply.value.keys
            = get_available_models(TRUE, SaveTriples(EmptyDir, ListedTriples)).keys

-----------------------------------------------------------------------------
(* Properties of evaluate_model_performance *)

Evaluated == reply.op = "evaluate_model_performance"

(* The rows of the requested key in the evaluation data of the call *)
KeyRows ==
    LET c == reply.value
    IN  {i \in DOMAIN c.evaluation_data.rows :
            /\ c.evaluation_data.rows[i].pincode = c.pincode
            /\ c.evaluation_data.rows[i].item = c.item}

(* The first precondition that fails, in the order keys, kind, evaluation
   data, rows of the key, model; "none" if all hold *)
FirstFailing ==
    LET c == reply.value
    IN  IF c.pincode = EmptyStr \/ c.item = EmptyStr THEN "InvalidInput"
        ELSE IF c.model_type \notin {Prophet, Arima} THEN "Unsupported"
        ELSE IF ~c.evaluation_data.given \/ c.evaluation_data.rows = <<>> THEN "NoData"
        ELSE IF ~(RequiredColumns \subseteq c.evaluation_data.columns) THEN "MissingColumns"
        ELSE IF KeyRows = {} THEN "NoDataForKey"
        ELSE IF c.file_state # "ok" THEN "ModelNotFound"
        ELSE "none"

(* C15: the status of an evaluation names the first failing precondition in
   the order keys, kind, evaluation data, rows of the key, and the model is
   loaded only after all of these hold: when one of them fails the registry
   has not been touched *)
C15_DataCheckedBeforeLoad ==
    Evaluated =>
        /\ FirstFailing # "none" => reply.value.returned.status = FirstFailing
        /\ FirstFailing \notin {"none", "ModelNotFound"}
              => reply.value.returned.accesses = <<>>

(* C16: an evaluation that completes over a window whose actual values are
   all zero reports an infinite MAPE, whatever the predictions *)
C16_AllZeroActualsGiveInfiniteMape ==
    (/\ Evaluated
     /\ reply.value.returned.status = "Complete"
     /\ \A i \in DOMAIN reply.value.returned.actual_values :
            reply.value.returned.actual_values[i] = 0)
    => (/\ "MAPE" \in reply.value.returned.keys
        /\ reply.value.returned.MAPE = "inf")

C16_Witness ==
    /\ Evaluated
    /\ reply.value.returned.status = "Complete"
    /\ reply.value.returned.actual_values = <<0, 0>>
    /\ reply.value.returned.predictions = <<3, -1>>
    /\ reply.value.returned.MAPE = "inf"

(* C17: an evaluation whose call of predict raised, for either kind of
   model, returns the prediction-failed status and no metrics *)
C17_PredictExceptionIsAFailure ==
    (Evaluated /\ reply.value.returned.predict_raised)
    => (/\ reply.value.returned.status = "PredictionFailed"
        /\ reply.value.returned.keys = {"status"})

(* The actual values of the call in date order, and the values predict gave *)
ActualOfCall ==
    LET c == reply.value
        rows == c.evaluation_data.rows
    IN  [n \in 1..Cardinality(KeyRows) |->
            rows[CHOOSE i \in KeyRows :
                    Cardinality({j \in KeyRows : rows[j].ds < rows[i].ds}) = n - 1].y]

PredictedOfCall ==
    IF reply.value.env.raises THEN [n \in 1..Cardinality(KeyRows) |-> 0]
    ELSE reply.value.env.yhat

(* C18: an evaluation that reaches the scoring scores the first
   min(len(actual), len(predicted)) values of both sequences, paired in date
   order: with a minimum of 0 it returns the failure status without metrics,
   otherwise (no NaN among the predictions) it completes and its MAE is the
   mean absolute error of exactly those pairs *)
C18_ScoresEqualLengthPrefixes ==
    (Evaluated /\ reply.value.returned.status \in {"NoOverlap", "MetricsError", "Complete"})
    => LET r == reply.value.returned
           m == Min(Len(ActualOfCall), Len(PredictedOfCall))
           errors == [i \in 1..m |-> Abs(ActualOfCall[i] - PredictedOfCall[i])]
       IN  /\ (m = 0) <=> (r.status = "NoOverlap")
           /\ r.status = "NoOverlap" => r.keys = {"status"}
           /\ (m > 0 /\ ~reply.value.env.nan) => r.status = "Complete"
           /\ r.status = "Complete"
                => /\ r.actual_values = [i \in 1..m |-> ActualOfCall[i]]
                   /\ r.predictions = [i \in 1..m |-> PredictedOfCall[i]]
                   /\ 2 * Abs(r.MAE * m - 100 * SumSeq(errors)) <= m

C18_Witness ==
    /\ Evaluated
    /\ reply.value.returned.status = "Complete"
    /\ Len(ActualOfCall) = 2
    /\ reply.value.env.yhat = <<3>>
    /\ reply.value.returned.actual_values = <<2>>
    /\ ActualOfCall = <<2, 0>>
    /\ reply.value.returned.MAE = 100

-----------------------------------------------------------------------------
(* Properties of the prediction endpoint *)

(* C19: the endpoint answers a missing model and an invalid request (empty
   key, unknown kind) with a 4xx status, a failed forecast (the call of
   predict raised, status PredictionFailed) or an escaped exception with a
   5xx status, and a success with 200; it has no other outcome *)
C19_HttpClassesOfTheEndpoint ==
    result.op = "get_predicted_demand"
    => /\ result.status \in {"ModelNotFound", "InvalidInput", "Unsupported",
                             "PredictionFailed", "Success"}
       /\ result.status \in {"ModelNotFound", "InvalidInput", "Unsupported"}
             => (result.http >= 400 /\ result.http < 500)
       /\ (result.status = "PredictionFailed" \/ result.forecast_raised)
             => (result.http >= 500 /\ result.http < 600)
       /\ result.status = "Success" => result.http = 200

-----------------------------------------------------------------------------
(* Properties of the daily monitoring run *)

MonitoringReturnedList ==
    /\ pc = "done"
    /\ reply.op = "monitor_model_performance_daily"
    /\ reply.value.returned = "list"

BundlesOf(k) ==
    {i \in DOMAIN reply.value.results :
        reply.value.results[i].pincode = k[1] /\ reply.value.results[i].item = k[2]}

(* C20 as stated: a monitoring run that returns its list has called the
   evaluation exactly once for every key of the preprocessed data and its
   list has exactly one entry for every key *)
C20_OneEvaluationPerKey ==
    MonitoringReturnedList
    => \A k \in DistinctKeys :
          /\ AttemptsOf(Prophet, k) + AttemptsOf(Arima, k) = 1
          /\ Cardinality(BundlesOf(k)) = 1

(* C20 amended: a monitoring run that returns its list has called the
   evaluation exactly twice for every key of the preprocessed data, once for
   the prophet and once for the arima model, and for no other key; its list
   has exactly one entry for every key, which holds the two results *)
C20_OneEvaluationPerKeyAndKind ==
    MonitoringReturnedList
    => /\ \A k \in DistinctKeys :
             /\ AttemptsOf(Prophet, k) = 1
             /\ AttemptsOf(Arima, k) = 1
             /\ Cardinality(BundlesOf(k)) = 1
       /\ Len(run.attempts) = 2 * Cardinality(DistinctKeys)
       /\ Len(reply.value.results) = Cardinality(DistinctKeys)

C20_Witness ==
    /\ MonitoringReturnedList
    /\ DistinctKeys = {Key1, Key2}
    /\ Len(reply.value.results) = 2
    /\ reply.value.results[1].prophet_metrics.status = "Complete"
    /\ reply.value.results[2].arima_metrics.status = "ModelNotFound"

(* C21: a monitoring run whose data source raised or returned no records
   stops before its loop without evaluating any key and returns an empty
   collection, not None *)
C21_EarlyStopReturnsEmptyCollection ==
    (/\ pc = "done"
     /\ reply.op = "monitor_model_performance_daily"
     /\ run.combos = <<>>)
    => (/\ run.attempts = <<>>
        /\ reply.value.results = <<>>
        /\ reply.value.returned = "list")

-----------------------------------------------------------------------------
(* Properties of the read side *)

(* C22: no call of Predict, Evaluate, the listing or the health check,
   whatever its inputs and its outcome, changes the files of the directory
   or their contents *)
C22_ReadSideLeavesTheRegistry ==
    [][files' = files]_vars

C22_Witness ==
    /\ reply.op = "check_model_health"
    /\ reply.value.status = "corrupted"
    /\ FileState(files, ModelFilename(Prophet, P1, Milk)) = "corrupt"
    /\ FileState(files, ModelFilename(Arima, P1, Milk)) = "ok"

-----------------------------------------------------------------------------
(* Properties of the naming of the model files *)

KeyTriples == {<<m, k[1], k[2]>> : m \in {Prophet, Arima}, k \in SeparatorKeys}

(* C23: different triples of kind, pincode and item (a "_" in the pincode or
   the item included) are saved under different file names, and the model
   that loads for a key is a model fitted for that key, never the model of
   another key *)
C23_OneFilePerTriple ==
    /\ \A s \in KeyTriples, t \in KeyTriples :
          s # t => TrainFilename(s[1], s[2], s[3]) # TrainFilename(t[1], t[2], t[3])
    /\ \A k \in SeparatorKeys :
          LET model == load_model(k[1], k[2], Prophet, files).model
          IN  model # NoModel => (model.pincode = k[1] /\ model.item = k[2])

-----------------------------------------------------------------------------
(* Properties of repeated predictions *)

(* C24: two calls of predict_next_day_demand that find the same directory
   contents, have the same pincode, item and model kind, and run on the same
   day return the same dictionary: the same status, the same predicted_demand
   and the same restock_quantity *)
C24_PredictIsDeterministic ==
    reply.op = "calls"
    => \A i \in DOMAIN reply.value.calls, j \in DOMAIN reply.value.calls :
          LET a == reply.value.calls[i]
              b == reply.value.calls[j]
          IN  (/\ a.files = b.files
               /\ a.returned.request = b.returned.request
               /\ a.today = b.today)
              => (/\ a.returned.status = b.returned.status
                  /\ a.returned.predicted_demand = b.returned.predicted_demand
                  /\ a.returned.restock_quantity = b.returned.restock_quantity
                  /\ a.returned = b.returned)

(* Two successful calls for the same key and kind on the same day that
   found the same directory *)
C24_Witness ==
    /\ reply.op = "calls"
    /\ Len(reply.value.calls) = 2
    /\ reply.value.calls[1].files = reply.value.calls[2].files
    /\ reply.value.calls[1].today = reply.value.calls[2].today
    /\ reply.value.calls[1].returned.request = <<P1, Milk, Prophet>>
    /\ reply.value.calls[2].returned.request = <<P1, Milk, Prophet>>
    /\ reply.value.calls[1].returned.status = "Success"
    /\ reply.value.calls[2].returned.predicted_demand > 0

-----------------------------------------------------------------------------
(* Properties of the callers of preprocess_data *)

(* C25: preprocess_data of an empty collection of records is an empty
   collection, and a training run or a monitoring run over it stops before
   its loop: no key is attempted, no file is written, the prophet-only run
   returns False and the run ends *)
C25_EmptyInputStopsTheRun ==
    raw = <<>>
    => /\ preprocess_data(raw) = <<>>
       /\ processed = <<>>
       /\ pc \in {"raw", "preprocessed", "done"}
       /\ run.combos = <<>>
       /\ run.attempts = <<>>
       /\ run.trained = 0 /\ run.failed = 0 /\ run.trained_arima = 0
       /\ files = EmptyDir
       /\ reply.op = "monitor_model_performance_daily" => reply.value.results = <<>>
       /\ (pc = "done" /\ run.kind = "prophet_only") => run.ret = "False"

C25_Witness ==
    /\ raw = <<>>
    /\ pc = "done"
    /\ run.kind = "full"
    /\ processed = preprocess_data(raw)

-----------------------------------------------------------------------------
(* Properties of the scheduled and the batch prediction run *)

(* C26: a daily or batch prediction run that has returned holds exactly one
   result for every combination it was asked for, in the order of the
   iteration, also for a key whose call was left by an exception (that key
   has a zeroed result); and the counters of the daily run add up to the
   number of results *)
C26_OneResultPerCombination ==
    (pc = "done" /\ run.kind \in {"daily", "batch"})
    => /\ reply.value.returned = "list"
       /\ Len(reply.value.results) = Len(run.combos)
       /\ \A i \in DOMAIN run.combos :
             /\ reply.value.results[i].pincode = run.combos[i][1]
             /\ reply.value.results[i].item = run.combos[i][2]
             /\ reply.value.results[i].status # "Success"
                   => (/\ reply.value.results[i].predicted_demand = 0
                       /\ reply.value.results[i].restock_quantity = 0)
       /\ run.kind = "daily"
             => reply.value.successful_predictions + reply.value.failed_predictions
                   = Len(reply.value.results)

(* A daily run over two keys whose first call succeeded and whose second
   call was left by an exception *)
C26_Witness ==
    /\ pc = "done"
    /\ run.kind = "daily"
    /\ Len(run.combos) = 2
    /\ reply.value.results[1].status = "Success"
    /\ reply.value.results[2].status = "Error"
    /\ reply.value.successful_predictions = 1
    /\ reply.value.failed_predictions = 1

-----------------------------------------------------------------------------
(* Properties of retraining *)

(* The model a completed earlier run left for a key *)
OldModel(k) == Fitted(Prophet, k[1], k[2], MIN_PROPHET_POINTS + 1)

(* The model a training call fits on the present data of a key *)
NewModel(k) == Fitted(Prophet, k[1], k[2], SeriesLen(k))

(* C27: when a retraining call for a key returns a model, loading that key
   gives the newly fitted model; when it gives up because the key has too
   few rows or the fit raises, the directory is as it was and loading the
   key still gives the model that was there before *)
C27_RetrainReplacesOnlyOnSuccess ==
    [][(run.kind = "prophet_only" /\ Len(run'.attempts) = Len(run.attempts) + 1)
       => LET k == run.combos[run.idx]
              before == load_model(k[1], k[2], Prophet, files).model
              after == load_model(k[1], k[2], Prophet, files').model
          IN  /\ run'.trained = run.trained + 1
                    => (after = NewModel(k) /\ after # OldModel(k))
              /\ (run'.failed = run.failed + 1 /\ run.step = Prophet)
                    => (/\ files' = files
                        /\ before = OldModel(k)
                        /\ after = before)]_vars

(* A run that gave up on the first key, whose old model still loads, and
   replaced the model of the second *)
C27_Witness ==
    /\ pc = "done"
    /\ run.kind = "prophet_only"
    /\ run.failed = 1
    /\ run.trained = 1
    /\ SeriesLen(Key1) = 3
    /\ load_model(P1, Milk, Prophet, files).model = OldModel(Key1)
    /\ load_model(P2, Bread, Prophet, files).model = NewModel(Key2)
    /\ NewModel(Key2) # OldModel(Key2)

-----------------------------------------------------------------------------
(* Properties of the counters of a training run *)

(* C28 as stated: in a run that started on an empty directory a call is
   counted as trained exactly if a loadable model file of its key exists
   afterwards, and a call counted as failed leaves no file of its key
   behind *)
C28_FailedCallLeavesNoFile ==
    [][(/\ run.kind = "prophet_only"
        /\ Len(run'.attempts) = Len(run.attempts) + 1)
       => LET k == run.combos[run.idx]
              model_filename == ModelFilename(Prophet, k[1], k[2])
          IN  /\ (run'.trained = run.trained + 1)
                    <=> load_model(k[1], k[2], Prophet, files').model # NoModel
              /\ (run'.failed = run.failed + 1) => ~Exists(files', model_filename)]_vars

(* What does hold of the counters: a call is counted as trained exactly if
   load_model gives a model for its key afterwards; a call counted as failed
   may leave a file behind, but none that loads *)
CountedTrainedIffLoadable ==
    [][(/\ run.kind = "prophet_only"
        /\ Len(run'.attempts) = Len(run.attempts) + 1)
       => LET k == run.combos[run.idx]
              model_filename == ModelFilename(Prophet, k[1], k[2])
          IN  /\ (run'.trained = run.trained + 1)
                    <=> load_model(k[1], k[2], Prophet, files').model # NoModel
              /\ (run'.failed = run.failed + 1)
                    => FileState(files', model_filename) \in {"absent", "corrupt"}
              /\ run'.trained + run'.failed = Len(run'.attempts)]_vars

-----------------------------------------------------------------------------
(* Properties of the independence of the series *)

(* The input without the records of every other key *)
OnlyKey(df, k) == FilterKey(df, k[1], k[2])

(* Two reorderings of the input from which every other one can be composed:
   the first record moved to the end, and the first two records swapped *)
Rotated(df) == IF df = <<>> THEN df ELSE Append(Tail(df), Head(df))
FirstTwoSwapped(df) ==
    IF Len(df) < 2 THEN df ELSE <<df[2], df[1]>> \o SubSeq(df, 3, Len(df))

SeriesOf(frame, k) == FilterKey(frame, k[1], k[2])

RawKeys == {KeyOf(raw[i]) : i \in DOMAIN raw}

(* C29: the series preprocess_data produces for a key is the series it
   produces from the records of that key alone, whatever records of other
   keys the input holds, and is the same for every order of the input; the
   keys of the output are the distinct keys of the input *)
C29_SeriesAreIndependent ==
    pc = "preprocessed"
    => /\ \A k \in Keys :
             /\ SeriesOf(processed, k) = preprocess_data(OnlyKey(raw, k))
             /\ SeriesOf(processed, k) = SeriesOf(preprocess_data(Rotated(raw)), k)
             /\ SeriesOf(processed, k) = SeriesOf(preprocess_data(FirstTwoSwapped(raw)), k)
       /\ DistinctKeys = RawKeys

(* Records of two keys interleaved and out of date order, the dates of one
   key lying outside the range of the other *)
C29_Witness ==
    /\ pc = "preprocessed"
    /\ Len(raw) = 3
    /\ KeyOf(raw[1]) = Key1 /\ raw[1].date = 2
    /\ KeyOf(raw[2]) = Key2 /\ raw[2].date = 3
    /\ KeyOf(raw[3]) = Key1 /\ raw[3].date = 0
    /\ Len(SeriesOf(processed, Key1)) = 3
    /\ Len(SeriesOf(processed, Key2)) = 1

-----------------------------------------------------------------------------
(* Properties of the order of the training calls *)

(* The run of the loop over the combinations in the order of the data, each
   call with the same outcome of the libraries as in the run at hand *)
Sequential ==
    SequentialRun(processed, run.combos, [files |-> EmptyDir, trained |-> 0, failed |-> 0])

(* C30: whatever the order in which the training calls of the distinct keys
   of the data are made, the run ends with the same files holding the same
   models, and with the same counts of trained and failed keys, as the run
   that takes the keys one after the other in the order of the data *)
C30_TrainingOrderDoesNotMatter ==
    (pc = "done" /\ run.kind = "any_order")
    => /\ files = Sequential.files
       /\ run.trained = Sequential.trained
       /\ run.failed = Sequential.failed


(* What does hold: the order does not matter in a run whose keys all have
   file names of their own *)
OrderDoesNotMatterForSeparateFiles ==
    (/\ pc = "done"
     /\ run.kind = "any_order"
     /\ \A i \in DOMAIN run.combos, j \in DOMAIN run.combos :
           i # j => ProphetModelFilename(run.combos[i][1], run.combos[i][2])
                       # ProphetModelFilename(run.combos[j][1], run.combos[j][2]))
    => /\ files = Sequential.files
       /\ run.trained = Sequential.trained
       /\ run.failed = Sequential.failed

====
